---- MODULE Spec2Model ----
(***************************************************************************)
(* A model of the sagrag query pipeline: the retrieval fan-out             *)
(* (agents.py), the confidence judge (judge.py), the synthesis generator   *)
(* (synthesis.py) and the /query request handler (api.py).                 *)
(*                                                                         *)
(* Numbers that are floats in the program (confidence, penalties, scores)  *)
(* are integers counted in units of 1/100000, so that every product the    *)
(* code forms is exact: 0.6 is 60000, 1.0 is 100000.                       *)
(***************************************************************************)
EXTENDS Integers, Sequences, FiniteSets, TLC

VARIABLES
    jIn,      \* judge_evidence: its arguments and the outcome of the LLM call
    jOut,     \* judge_evidence: the JudgeOutput returned
    jPc,      \* judge_evidence: "call" before the call, "done" after it
    sIn,      \* synthesize_answer: its arguments and the outcomes of its LLM calls
    sOut,     \* synthesize_answer: the SynthesisOutput returned
    sPc       \* synthesize_answer: "call" before the call, "done" after it

VARIABLES
    hPc,      \* query_endpoint: the step the request is at
    hReq,     \* the request body and the settings it runs under
    hPlan,    \* the sub-queries, the domain and the fallback domains
    tasks,    \* run_agents: the agent calls with their status and hits
    raw,      \* raw_results: what run_agents returned
    hStatus,  \* the HTTP status of the response (0: none yet)
    fList,        \* normalized, deduped, reranked: the evidence list
    fAuthorHits,  \* author_hits: the hits of the author-guided expansion
    fAuthorGap,   \* author_gap
    fResp,        \* response
    lEnabled,  \* GeminiREST.enabled: an API key is configured
    lPc,       \* GeminiREST.completion: where each concurrent call stands
    lAttempt,  \* attempt, per call
    lBackoff,  \* backoff, per call: the last sleep, in hundredths of a second
    pIn, pOut, pPc,  \* plan_query: its inputs, what it returned, its position
    rIn, rOut, rPc,  \* route_domain: its inputs, what it returned, its position
    kIn, kOut, kPc,  \* apply_policy_rules: its inputs, what it returned, its position
    rlState,   \* main.py _rate_state: window -> (client key -> count)
    rlNow,     \* int(time.time())
    rlPassed,  \* the requests passed on to a handler: (key, window) -> how many
    rlLast,    \* the last request the middleware saw, and what it did with it
    aRows,     \* the table query_audit, in insertion order
    aNow,      \* time.time() of the audit store
    aCursor,   \* the next_token the client of /audit holds
    aSeen,     \* the ids of the rows the client has been given, page after page
    aStart,    \* the ids of the rows that existed when the client started paging
    aPc,       \* where the client of /audit stands
    aUser,     \* the user_id filter the client of /audit passes with every page
    dBackend,  \* the domain indices the search backend holds
    dCache,    \* agents.py _DOMAIN_INDEX_CACHE
    dOut,      \* what the last route_domain call returned
    dCalls     \* route_domain calls made since the cache was filled, up to MaxRouteCalls

judgeVars == <<jIn, jOut, jPc>>
synthVars == <<sIn, sOut, sPc>>
fusionVars == <<fList, fAuthorHits, fAuthorGap, fResp>>
handlerVars == <<hPc, hReq, hPlan, tasks, raw, hStatus, fusionVars>>
llmVars == <<lEnabled, lPc, lAttempt, lBackoff>>
planVars == <<pIn, pOut, pPc>>
routeVars == <<rIn, rOut, rPc>>
policyVars == <<kIn, kOut, kPc>>
rateVars == <<rlState, rlNow, rlPassed, rlLast>>
auditVars == <<aRows, aNow, aCursor, aSeen, aStart, aPc, aUser>>
cacheVars == <<dBackend, dCache, dOut, dCalls>>
moreVars == <<policyVars, rateVars, auditVars, cacheVars>>
unitVars == <<llmVars, planVars, routeVars, moreVars>>
vars == <<judgeVars, synthVars, handlerVars, unitVars>>

----------------------------------------------------------------------------
(* Helpers *)

Min(a, b) == IF a <= b THEN a ELSE b
Max(a, b) == IF a >= b THEN a ELSE b

\* 1.0 in the integer unit of the model
One == 100 * 1000

\* base * factor for a factor in 0..One that is a multiple of 0.05 (every
\* factor 1 - penalty the judge forms is one); exact for the bases used
Times(base, factor) == (base * (factor \div 5000)) \div 20

\* all sequences over S of length at most n
SeqUpTo(S, n) == UNION {[1..k -> S] : k \in 0..n}

\* the first n elements of s (Python s[:n])
Take(s, n) == SubSeq(s, 1, Min(n, Len(s)))

----------------------------------------------------------------------------
(* Settings (config.py), in units of 1/100000 *)

judge_contradiction_confidence_cap    == 60000
judge_contradiction_penalty_per_claim == 10000
judge_contradiction_penalty_max       == 50000
judge_relation_boost_per_relation     == 5000
judge_relation_boost_max              == 20000
judge_relation_conflict_penalty       == 15000

----------------------------------------------------------------------------
(* Bounds *)

MaxClaims    == 5   \* claims in graph_reasoning
MaxConflicts == 4   \* relation_conflicts in graph_reasoning
MaxStrength  == 5   \* relation_strength entries in graph_reasoning
MaxEvidence  == 4   \* evidence items handed to synthesize_answer
MaxProv      == 2   \* entries in the provenance list the model returns
MaxQueries   == 2   \* sub-queries in a plan of the model
MaxTasks     == 6   \* agent calls of one run_agents call
MaxLines     == 1   \* structured lines extracted from one lexical hit
MaxRaw       == 2   \* hits in the list the fusion stages start from
MaxAuthorHits == 1  \* hits of the author-guided expansion
MaxCalls     == 3   \* concurrent GeminiREST.completion calls
MaxWords     == 2   \* words of the query handed to plan_query
MaxItems     == 2   \* items handed to apply_policy_rules
MaxRules     == 2   \* rules in settings.policy_rules
MaxNow       == 90  \* the last second of the rate limiter's clock
MaxOver      == 2   \* requests of one client in one window beyond the limit
MaxRows      == 3   \* rows of the table query_audit
MaxClock     == 1   \* the last reading of the audit store's clock
MaxLimit     == 2   \* the limit of one page of /audit
MaxRouteCalls == 3  \* route_domain calls counted after the cache was filled

----------------------------------------------------------------------------
(* Values *)

\* The value under the key "confidence" of a JSON object the LLM wrote:
\* a number, a string that float() rejects, null, or no such key.
Num(n)     == [kind |-> "num", val |-> n]
NonNumeric == [kind |-> "str", val |-> 0]
Null       == [kind |-> "null", val |-> 0]
Missing    == [kind |-> "missing", val |-> 0]

LlmConfidences ==
    {Num(n) : n \in {-50000, 0, 50000, 90000, 100000, 150000}}
        \cup {NonNumeric, Null, Missing}

\* graph_reasoning: None (not a dict) or a dict with the contradict_count of
\* each claim and the lengths of relation_conflicts and relation_strength
NoGraphReasoning == [isDict |-> FALSE, claims |-> <<>>, conflicts |-> 0, strength |-> 0]

GraphReasonings ==
    {NoGraphReasoning}
    \cup [isDict : {TRUE}, claims : SeqUpTo({0, 1}, MaxClaims),
          conflicts : 0..MaxConflicts, strength : 0..MaxStrength]

\* The outcome of the judge's LLM call: text holding a non-empty JSON
\* object, text with no (or an empty) JSON object, a timeout, another error
JudgeLlmOutcomes ==
    [kind : {"json"}, confidence : LlmConfidences, trusted_ids : {<<>>, <<"c1">>}]
    \cup [kind : {"non_json", "timeout", "error"}, confidence : {Missing},
          trusted_ids : {<<>>}]

----------------------------------------------------------------------------
(* agents.py: the retrieval agents and run_agents *)

Agents == <<"vector", "lexical", "structured">>

NoDomain == "None"

\* the hits a backend holds for an agent call; the vector and the lexical
\* backend share the document d2
VectorHits  == <<"d1", "d2">>
LexicalHits == <<"d2", "d3">>

\* structured_search: one sub-hit per extracted line, id {parent}::line::{n}
LineId(parent, n) == <<parent, "line", n>>
DocId(d) == <<d>>

Hit(id, agent) == [id |-> id, agent |-> agent]

\* vector_search / lexical_search with return_status=True: (results, status).
\* outcome is what the backend call did: "hits", "empty", "timeout", "error"
SearchResult(agent, outcome) ==
    LET docs == IF outcome # "hits" THEN <<>>
                ELSE IF agent = "vector" THEN VectorHits ELSE LexicalHits
        results == [i \in 1..Len(docs) |-> Hit(DocId(docs[i]), agent)]
    IN [results |-> results,
        status |-> IF outcome = "timeout" THEN "timeout"
                   ELSE IF outcome = "error" THEN "error"
                   ELSE IF Len(results) > 0 THEN "ok" ELSE "zero_hits"]

\* structured_search (lines 325-357): the lexical search, then one sub-hit
\* per structured line of each hit (lines: how many lines each hit yields,
\* at most max_lines = 3), at most k = 6 in all;
\* status = "ok" if out else base_status
StructuredResult(outcome, lines) ==
    LET base == SearchResult("lexical", outcome)
        n    == Min(lines, 3)
        all  == [j \in 1..(Len(base.results) * n) |->
                    Hit(LineId(base.results[((j - 1) \div n) + 1].id[1], (j - 1) % n),
                        "structured")]
        out  == Take(all, 6)
    IN [results |-> out,
        status |-> IF Len(out) > 0 THEN "ok" ELSE base.status]

AgentResult(agent, outcome, lines) ==
    IF agent = "structured" THEN StructuredResult(outcome, lines)
    ELSE SearchResult(agent, outcome)

\* search_domains of run_agents (lines 362-368)
RECURSIVE AddFallbacks(_, _)
AddFallbacks(search_domains, fallback_domains) ==
    IF fallback_domains = <<>> THEN search_domains
    ELSE LET d == Head(fallback_domains)
             inList == \E i \in 1..Len(search_domains) : search_domains[i] = d
         IN AddFallbacks(IF d # "" /\ d # NoDomain /\ ~inList
                         THEN Append(search_domains, d) ELSE search_domains,
                         Tail(fallback_domains))

SearchDomains(domain, fallback_domains) ==
    LET first == IF domain # NoDomain THEN <<domain>> ELSE <<>>
        all   == AddFallbacks(first, fallback_domains)
    IN IF all = <<>> THEN <<NoDomain>> ELSE all

\* the task list of run_agents (lines 369-376): for each query, for each
\* domain, vector, lexical, structured; every task starts pending
TaskList(queries, search_domains) ==
    LET nd == Len(search_domains)
        n  == Len(queries) * nd * 3
    IN [t \in 1..n |->
           [agent |-> Agents[((t - 1) % 3) + 1],
            query |-> queries[((t - 1) \div (3 * nd)) + 1],
            domain |-> search_domains[(((t - 1) \div 3) % nd) + 1],
            status |-> "pending",
            results |-> <<>>]]

\* a gather that stops at the first call that timed out or failed
RECURSIVE FlattenUntilFailure(_)
FlattenUntilFailure(ts) ==
    IF ts = <<>> THEN <<>>
    ELSE IF Head(ts).status \in {"timeout", "error"} THEN <<>>
    ELSE Head(ts).results \o FlattenUntilFailure(Tail(ts))

\* flattened.extend(results) in task order (lines 380-382)
RECURSIVE Flatten(_)
Flatten(ts) ==
    IF ts = <<>> THEN <<>> ELSE Head(ts).results \o Flatten(Tail(ts))

\* counters that leave the failed calls out of attempted
DiagnosticsSkipErrors(ts) ==
    [a \in {ts[t].agent : t \in 1..Len(ts)} |->
        [k \in {"attempted", "ok", "zero_hits", "timeout", "error"} |->
            Cardinality({t \in 1..Len(ts) :
                /\ ts[t].agent = a
                /\ IF k = "attempted" THEN ts[t].status # "error"
                   ELSE ts[t].status = k})]]

\* the per-agent counters (lines 383-385)
Diagnostics(ts) ==
    [a \in {ts[t].agent : t \in 1..Len(ts)} |->
        [k \in {"attempted", "ok", "zero_hits", "timeout", "error"} |->
            Cardinality({t \in 1..Len(ts) :
                /\ ts[t].agent = a
                /\ (k = "attempted" \/ ts[t].status = k)})]]

\* a dedup by id in which a later hit replaces the one kept
RECURSIVE MergeHitsLastWins(_, _)
MergeHitsLastWins(flattened, out) ==
    IF flattened = <<>> THEN out
    ELSE LET r == Head(flattened)
             seen == \E i \in 1..Len(out) : out[i].id = r.id
         IN MergeHitsLastWins(Tail(flattened),
                IF seen THEN [i \in 1..Len(out) |-> IF out[i].id = r.id THEN r ELSE out[i]]
                ELSE Append(out, r))

\* the stable dedup by id (lines 386-392)
RECURSIVE MergeHits(_, _)
MergeHits(flattened, out) ==
    IF flattened = <<>> THEN out
    ELSE LET r == Head(flattened)
             seen == \E i \in 1..Len(out) : out[i].id = r.id
         IN MergeHits(Tail(flattened), IF seen THEN out ELSE Append(out, r))

\* what run_agents returns: the tuple (out, diagnostics)
RunAgentsReturn(ts) ==
    [shape |-> "tuple", out |-> MergeHits(Flatten(ts), <<>>),
     diagnostics |-> Diagnostics(ts)]

----------------------------------------------------------------------------
(* api.py: query_endpoint up to the call of run_agents *)

\* list({d for d in fallback_domains if d}): the distinct non-empty names, in
\* the order the set yields them, which the program does not control
SetOrders(fb) ==
    LET S == {fb[i] : i \in 1..Len(fb)} \ {"", NoDomain}
    IN {s \in [1..Cardinality(S) -> S] : \A i, j \in 1..Cardinality(S) : s[i] = s[j] => i = j}

\* lines 224-231: domain and domain_source. routed is what route_domain finds
\* in the query when neither constraints nor preferences name a domain
RoutedDomain(constraintsDomain, prefsDomain, routed) ==
    IF constraintsDomain # NoDomain THEN constraintsDomain
    ELSE IF prefsDomain # NoDomain THEN prefsDomain
    ELSE routed

DomainSource(constraintsDomain, prefsDomain, domain) ==
    IF constraintsDomain # NoDomain THEN "constraint"
    ELSE IF prefsDomain # NoDomain THEN "preference"
    ELSE IF domain # NoDomain THEN "keyword"
    ELSE "unknown"

\* line 236: queries = plan.get("queries", [query])
PlanQueries(plan) == IF plan.hasQueries THEN plan.queries ELSE <<"query">>

\* lines 244-250: the loop over raw_results calls r.get on each element.
\* The elements of the tuple run_agents returns are the list out and the
\* dict diagnostics: out.get raises AttributeError.
NormalizeRaises(raw_results) == raw_results.shape = "tuple"

----------------------------------------------------------------------------
(* judge.py *)

\* extract_contradictions: the claims with contradict_count > 0
extract_contradictions(gr) ==
    IF ~gr.isDict THEN <<>>
    ELSE LET idx == SelectSeq([i \in 1..Len(gr.claims) |-> i],
                              LAMBDA i : gr.claims[i] > 0)
         IN [k \in 1..Len(idx) |->
                [id |-> idx[k], contradict_count |-> gr.claims[idx[k]]]]

\* float(judge_output["confidence"]) succeeds
Floatable(c) == c.kind = "num"

\* Each adjustment returns its argument unchanged when the key is missing or
\* None, and also when float() raises, which the except clause swallows.
apply_contradiction_penalty(jo, contradiction_count) ==
    IF ~Floatable(jo.confidence) THEN jo
    ELSE LET cap      == judge_contradiction_confidence_cap
             base     == jo.confidence.val
             penalty  == Min(judge_contradiction_penalty_max,
                             judge_contradiction_penalty_per_claim * contradiction_count)
             adjusted == Times(base, One - penalty)
         IN [jo EXCEPT !.confidence = Num(Min(adjusted, cap)),
                       !.notes = Append(@, "contradictions")]

apply_relation_boost(jo, gr, contradiction_count) ==
    IF ~(jo.confidence.kind \in {"num", "str"}) THEN jo
    ELSE IF contradiction_count > 0 THEN jo
    ELSE LET strength == IF gr.isDict THEN gr.strength ELSE 0
         IN IF strength <= 0 THEN jo
            ELSE IF ~Floatable(jo.confidence) THEN jo
            ELSE LET base  == jo.confidence.val
                     boost == Min(judge_relation_boost_max,
                                  judge_relation_boost_per_relation * strength)
                 IN [jo EXCEPT !.confidence = Num(Min(One, base + boost)),
                               !.notes = Append(@, "relation_boost")]

apply_relation_conflict_penalty(jo, gr) ==
    IF ~(jo.confidence.kind \in {"num", "str"}) THEN jo
    ELSE LET conflicts == IF gr.isDict THEN gr.conflicts ELSE 0
         IN IF conflicts <= 0 THEN jo
            ELSE IF ~Floatable(jo.confidence) THEN jo
            ELSE LET base    == jo.confidence.val
                     penalty == Min(50000, judge_relation_conflict_penalty * conflicts)
                 IN [jo EXCEPT !.confidence =
                                   Num(Max(0, Times(base, One - penalty))),
                               !.notes = Append(@, "relation_conflicts")]

\* the three adjustments in the order judge_evidence applies them
Adjust(jo, gr) ==
    LET contradicted == extract_contradictions(gr)
        j1 == IF Len(contradicted) > 0
              THEN apply_contradiction_penalty(
                       [jo EXCEPT !.contradictions = contradicted], Len(contradicted))
              ELSE jo
        j2 == apply_relation_conflict_penalty(j1, gr)
    IN apply_relation_boost(j2, gr, Len(contradicted))

TopTrustedAll(evidence) ==
    SelectSeq([i \in 1..Len(evidence) |-> evidence[i].id], LAMBDA id : id # "")

\* the ids of the first three evidence items, falsy ids left out
TopTrusted(evidence) ==
    SelectSeq([i \in 1..Len(Take(evidence, 3)) |-> evidence[i].id],
              LAMBDA id : id # "")

judge_evidence(evidence, llm, gr) ==
    IF llm.kind = "json"
    THEN Adjust([confidence |-> llm.confidence, trusted_ids |-> llm.trusted_ids,
                 notes |-> <<"llm">>, contradictions |-> <<>>], gr)
    ELSE IF llm.kind = "non_json"
    THEN Adjust([confidence |-> Num(40000), trusted_ids |-> TopTrusted(evidence),
                 notes |-> <<"judge_non_json">>, contradictions |-> <<>>], gr)
    ELSE Adjust([confidence |-> Num(30000), trusted_ids |-> TopTrusted(evidence),
                 notes |-> <<"judge_error_fallback">>, contradictions |-> <<>>], gr)

----------------------------------------------------------------------------
\* what a reader of the JudgeOutput gets: judge_output.get("confidence", 0.3)
ReadConfidence(jo) ==
    IF jo.confidence.kind = "missing" THEN Num(30000) ELSE jo.confidence

----------------------------------------------------------------------------
(* synthesis.py *)

\* JSON values of one provenance field: the key is absent, or present and
\* null; otherwise a string (id, source) or a number (offsets)
Absent    == "absent"
NullV     == "null"
AbsentOff == -2
NoneOff   == -1

\* dict.get(key) is None, for an offset and for a string field
OffIsNone(o) == o \in {AbsentOff, NoneOff}
StrFalsy(x)  == x \in {Absent, NullV, ""}

\* An evidence item as synthesis reads it. "author" is whether an author term
\* occurs in its source or text (_is_author).
EvItem(id, source, os, oe, author) ==
    [id |-> id, source |-> source, offset_start |-> os, offset_end |-> oe,
     author |-> author]

\* by_id = {e.get("id"): e for e in evidence}: the last item of an id wins
HasId(evidence, id) == \E i \in 1..Len(evidence) : evidence[i].id = id
ById(evidence, id) ==
    LET last == CHOOSE i \in 1..Len(evidence) :
                    /\ evidence[i].id = id
                    /\ \A j \in (i + 1)..Len(evidence) : evidence[j].id # id
    IN evidence[last]

\* eid = p.get("id") or p.get("chunk_id")
EntryId(p) == IF ~StrFalsy(p.id) THEN p.id ELSE p.chunk_id

\* p.setdefault(key, value): only an absent key is filled; None is stored
\* as a present null
SetDefaultStr(cur, val) == IF cur = Absent THEN val ELSE cur
SetDefaultOff(cur, val) == IF cur = AbsentOff THEN val ELSE cur

\* the loop body of lines 236-246, up to the test that drops the entry
FillEntry(p, evidence) ==
    LET eid == EntryId(p)
    IN IF ~StrFalsy(eid) /\ HasId(evidence, eid)
       THEN LET e == ById(evidence, eid)
            IN [p EXCEPT !.offset_start = SetDefaultOff(@, e.offset_start),
                         !.offset_end = SetDefaultOff(@, e.offset_end),
                         !.source = SetDefaultStr(@, e.source)]
       ELSE p

\* an entry with a complete offset/source triple
Complete(p) ==
    ~OffIsNone(p.offset_start) /\ ~OffIsNone(p.offset_end) /\ ~StrFalsy(p.source)

\* lines 233-247: the validation of the provenance list the model returned
CleanProvenance(prov, evidence) ==
    LET filled == [i \in 1..Len(prov) |->
                       IF prov[i].dict THEN FillEntry(prov[i], evidence) ELSE prov[i]]
    IN SelectSeq(filled, LAMBDA p : p.dict /\ Complete(p))

\* picks = [by_id[t] for t in trusted if t in by_id] or evidence[:3]
Picks(evidence, jo) ==
    LET trusted == jo.trusted_ids
        known   == SelectSeq(trusted, LAMBDA t : HasId(evidence, t))
    IN IF Len(known) > 0
       THEN [i \in 1..Len(known) |-> ById(evidence, known[i])]
       ELSE Take(evidence, 3)

\* lines 297-304 and 348-355: under author_gap prefer the non-author picks
NonAuthorPicks(picks, hasAuthor, author_gap) ==
    IF hasAuthor /\ author_gap
    THEN LET non_author == SelectSeq(picks, LAMBDA e : ~e.author)
         IN IF Len(non_author) > 0 THEN non_author ELSE picks
    ELSE picks

\* the provenance built from picks: only the picks with a complete triple
ProvFromPicks(picks) ==
    LET ok == SelectSeq(picks, LAMBDA e : ~OffIsNone(e.offset_start)
                                          /\ ~OffIsNone(e.offset_end)
                                          /\ ~StrFalsy(e.source))
    IN [i \in 1..Len(ok) |->
           [dict |-> TRUE, id |-> ok[i].id, chunk_id |-> Absent,
            source |-> ok[i].source, offset_start |-> ok[i].offset_start,
            offset_end |-> ok[i].offset_end]]

\* A provenance value: a list of entries, a non-empty JSON object that is not
\* a list (held as the single element of items), or nothing (absent, null)
ProvList(items) == [kind |-> "list", items |-> items]
ProvObject(p)   == [kind |-> "object", items |-> <<p>>]
ProvNothing     == [kind |-> "nothing", items |-> <<>>]

\* not parsed.get("provenance")
ProvFalsy(pv) == pv.kind = "nothing" \/ (pv.kind = "list" /\ pv.items = <<>>)

\* Answer texts. The fixed strings are the program's; the others stand for
\* the text of the model's answer, of the rewrite and of the extracted sentences.
NoCleanEvidence ==
    "I could not find enough clean evidence to generate a natural answer."
NoCleanAnswer ==
    "I could not synthesize a clean answer from the available evidence."
LlmAnswer          == "<answer of the model>"
NaturalizedAnswer  == "<rewrite by _naturalize_answer>"
ExtractiveAnswer   == "<sentences of the picks>"
DisclaimerAnswer   == "No direct passages from <author> mention the query keywords in the current dataset. <sentences of the picks>"

\* _format_fallback_answer. sentences says what _extract_sentences finds in
\* the texts of the picks: "none", no qualifying sentence; "clean", sentences
\* that _clean_answer_text keeps; "technical", sentences that name
\* provenance or graph_reasoning, which _clean_answer_text removes
FormatFallbackAnswer(picks, hasAuthor, author_gap, sentences) ==
    IF Len(picks) = 0 \/ sentences = "none" THEN NoCleanEvidence
    ELSE IF sentences = "technical" THEN ""
    ELSE IF hasAuthor /\ author_gap THEN DisclaimerAnswer
    ELSE ExtractiveAnswer

\* _naturalize_answer returns the rewrite, or "" when the call failed or the
\* rewrite is not natural
NaturalizeAnswer(natOk) == IF natOk THEN NaturalizedAnswer ELSE ""

\* lines 335-379: the fallback after a timeout, an error or an empty output
SynthesisFallback(evidence, jo, hasAuthor, author_gap, sentences, fail_trace) ==
    LET picks == NonAuthorPicks(Picks(evidence, jo), hasAuthor, author_gap)
        formatted == FormatFallbackAnswer(picks, hasAuthor, author_gap, sentences)
    IN [answer |-> formatted,
        provenance |-> ProvList(ProvFromPicks(picks)),
        confidence |-> ReadConfidence(jo),
        explain_trace |-> IF formatted # "" /\ fail_trace = "synthesis_unavailable"
                          THEN "synthesis_fallback_formatted" ELSE fail_trace]

\* lines 230-287: the model returned a JSON object with an answer
SynthesisParsed(evidence, jo, hasAuthor, author_gap, sentences, llm, natOk) ==
    LET prov1 == IF llm.provenance.kind = "list"
                 THEN ProvList(CleanProvenance(llm.provenance.items, evidence))
                 ELSE llm.provenance
        prov2 == IF ProvFalsy(prov1)
                 THEN ProvList(ProvFromPicks(Picks(evidence, jo)))
                 ELSE prov1
        picks   == Picks(evidence, jo)
        natural == NaturalizeAnswer(natOk)
    IN [answer |-> IF llm.natural THEN LlmAnswer
                   ELSE IF natural # "" THEN natural
                   ELSE FormatFallbackAnswer(picks, hasAuthor, author_gap, sentences),
        provenance |-> prov2,
        confidence |-> llm.confidence,
        explain_trace |-> IF llm.natural THEN llm.explain_trace
                          ELSE IF natural # "" THEN "synthesis_naturalized"
                          ELSE "synthesis_fallback_formatted"]

\* lines 288-328: no JSON object with an answer, but some output text
SynthesisNonJson(evidence, jo, hasAuthor, author_gap, sentences, natOk) ==
    LET picks   == NonAuthorPicks(Picks(evidence, jo), hasAuthor, author_gap)
        natural == NaturalizeAnswer(natOk)
        formatted == FormatFallbackAnswer(picks, hasAuthor, author_gap, sentences)
    IN [answer |-> IF natural # "" THEN natural
                   ELSE IF formatted # "" THEN formatted
                   ELSE NoCleanAnswer,
        provenance |-> ProvList(ProvFromPicks(picks)),
        confidence |-> ReadConfidence(jo),
        explain_trace |-> "synthesis_non_json"]

\* synthesize_answer. llm.kind is the outcome of the primary LLM call:
\*   "json"     a JSON object with a non-empty answer
\*   "raises"   such an object on which the validation raises (an answer
\*              that is not a string, an unhashable id): caught at line 332
\*   "non_json" text with no such object
\*   "empty"    an empty or blank output
\*   "timeout", "error"
synthesize_answer(evidence, jo, hasAuthor, author_gap, sentences, llm, natOk) ==
    IF llm.kind = "json"
    THEN SynthesisParsed(evidence, jo, hasAuthor, author_gap, sentences, llm, natOk)
    ELSE IF llm.kind = "non_json"
    THEN SynthesisNonJson(evidence, jo, hasAuthor, author_gap, sentences, natOk)
    ELSE SynthesisFallback(evidence, jo, hasAuthor, author_gap, sentences,
             IF llm.kind = "timeout" THEN "synthesis_timeout"
             ELSE IF llm.kind = "empty" THEN "synthesis_unavailable"
             ELSE "synthesis_error")

----------------------------------------------------------------------------
(* api.py: the fusion stages of query_endpoint *)

\* A text is a sequence of tokens: words, and whitespace tokens. No word of
\* the vocabulary is part of another one, and none has fewer than three
\* letters, so "t in text" is "t is one of the words".
IsSpace(tok) == tok \in {" ", "\n"}

\* str.lower() on a word
Lower(w) ==
    CASE w = "Seneca" -> "seneca"
      [] w \in {"Fear", "FEAR"} -> "fear"
      [] w = "NOT" -> "not"
      [] w = "What" -> "what"
      [] w = "Anxiety" -> "anxiety"
      [] w = "Legal" -> "legal"
      [] w = "X" -> "x"
      [] OTHER -> w

\* token[0].isupper()
IsCapitalised(w) == w \in {"Seneca", "Fear", "FEAR", "NOT", "What", "Anxiety", "Legal", "X"}

LowerText(text) == [i \in 1..Len(text) |-> Lower(text[i])]

\* str.split(): the words between runs of whitespace
Split(text) == SelectSeq(text, LAMBDA tok : ~IsSpace(tok))

\* " ".join(words)
RECURSIVE Join(_)
Join(words) ==
    IF Len(words) <= 1 THEN words
    ELSE <<Head(words), " ">> \o Join(Tail(words))

\* a fingerprint that keeps the case of the text
FingerprintKeepsCase(text) == Join(Split(text))

\* fp = " ".join(r["text"].lower().split())
Fingerprint(text) == Join(Split(LowerText(text)))

\* t in text.lower()
Contains(t, text) == \E i \in 1..Len(text) : Lower(text[i]) = t

\* the words of a file name, for t in source.lower()
SourceWords(source) ==
    CASE source = "Seneca_letters.txt" -> <<"Seneca", "_letters.txt">>
      [] source = "notes.txt" -> <<"notes.txt">>
      [] OTHER -> <<>>

AUTHOR_STOPWORDS == {"what", "stoic", "advice"}
QUERY_STOPWORDS  == {"what", "does", "say", "about"}

\* TERM_SYNONYMS
TermSynonyms(t) ==
    IF t = "fear"
    THEN <<"fear", "fears", "afraid", "anxiety", "anxious", "terror", "dread",
           "timor", "metus">>
    ELSE IF t = "death" THEN <<"death", "die", "dying", "mortality", "mors">>
    ELSE <<>>

\* _extract_author_mentions with no domain keywords configured: the
\* capitalised words of the query that are not stopwords, lower-cased.
\* The program sorts them; nothing it does depends on their order.
extract_author_mentions(query) ==
    {Lower(query[i]) : i \in {j \in 1..Len(query) :
        /\ ~IsSpace(query[j])
        /\ IsCapitalised(query[j])
        /\ Lower(query[j]) \notin AUTHOR_STOPWORDS}}

\* _extract_query_terms: the other words, each followed by its synonyms,
\* without repetitions
RECURSIVE Unique(_, _)
Unique(s, out) ==
    IF s = <<>> THEN out
    ELSE Unique(Tail(s),
                IF \E i \in 1..Len(out) : out[i] = Head(s) THEN out
                ELSE Append(out, Head(s)))

RECURSIVE Expand(_)
Expand(terms) ==
    IF terms = <<>> THEN <<>>
    ELSE <<Head(terms)>> \o TermSynonyms(Head(terms)) \o Expand(Tail(terms))

extract_query_terms(query, author_terms) ==
    LET terms == SelectSeq(LowerText(Split(query)),
                     LAMBDA t : t \notin QUERY_STOPWORDS /\ t \notin author_terms)
    IN Unique(Expand(terms), <<>>)

\* a score that is None
NoScore == -100000000

\* x or None, for an offset and for a source: a falsy value becomes None
OrNoneOff(o) == IF o <= 0 THEN NoneOff ELSE o
OrNoneStr(x) == IF StrFalsy(x) THEN NullV ELSE x

\* lines 244-263 and 304-323: the entry built from one hit; hits with no text
\* are skipped
Entry(r, bias) ==
    [id |-> r.id, text |-> r.text, source |-> OrNoneStr(r.source),
     offset_start |-> OrNoneOff(r.offset_start),
     offset_end |-> OrNoneOff(r.offset_end),
     score |-> r.score, rerank_score |-> NoScore, author_bias |-> bias]

NormalizeHits(hits, bias) ==
    LET withText == SelectSeq(hits, LAMBDA r : r.text # <<>>)
    IN [i \in 1..Len(withText) |-> Entry(withText[i], bias)]

\* lines 277-285 and 324-333: the first item of every fingerprint is kept
RECURSIVE Dedupe(_, _)
Dedupe(items, deduped) ==
    IF items = <<>> THEN deduped
    ELSE LET r == Head(items)
             seen == \E i \in 1..Len(deduped) :
                         Fingerprint(deduped[i].text) = Fingerprint(r.text)
         IN Dedupe(Tail(items), IF seen THEN deduped ELSE Append(deduped, r))

FileHit(r, terms) == \E t \in terms : Contains(t, SourceWords(r.source))
TextHit(r, terms) == \E t \in terms : Contains(t, r.text)

\* _apply_author_bias with bias = 0.8
apply_author_bias(items, terms) ==
    IF terms = {} THEN items
    ELSE [i \in 1..Len(items) |->
            [items[i] EXCEPT !.author_bias =
                IF FileHit(items[i], terms) THEN 80000
                ELSE IF TextHit(items[i], terms) THEN 40000
                ELSE 0]]

\* _author_matches, with no author index file: a term occurs in the source
\* or in the text
author_matches(r, author_terms) ==
    author_terms # {} /\ (FileHit(r, author_terms) \/ TextHit(r, author_terms))

\* list.sort(key=rerank_score, reverse=True): stable
RECURSIVE InsertByScore(_, _)
InsertByScore(sorted, r) ==
    IF sorted = <<>> THEN <<r>>
    ELSE IF Head(sorted).rerank_score >= r.rerank_score
    THEN <<Head(sorted)>> \o InsertByScore(Tail(sorted), r)
    ELSE <<r>> \o sorted

RECURSIVE SortByScore(_, _)
SortByScore(items, sorted) ==
    IF items = <<>> THEN sorted
    ELSE SortByScore(Tail(items), InsertByScore(sorted, Head(items)))

reranker_top_k == 10
min_results_count == 3
min_top_rerank_score == -1200000

\* the score the cross-encoder gives to the i-th document
ModelScore(outcome, i) ==
    IF outcome = "relevant" THEN 200000 - i * 10000
    ELSE IF outcome = "reversed" THEN -1500000 + i * 10000
    ELSE 0

\* rerank: the documents scored and sorted, or the documents as they are
\* when the model fails to load or to predict
rerank(docs, outcome) ==
    IF docs = <<>> THEN <<>>
    ELSE IF outcome = "fail" THEN Take(docs, reranker_top_k)
    ELSE LET scored == [i \in 1..Len(docs) |->
                           [docs[i] EXCEPT !.rerank_score = ModelScore(outcome, i)]]
         IN Take(SortByScore(scored, <<>>), reranker_top_k)

\* lines 338-342: rerank_score = base + author_bias, then sort
AddAuthorBias(items) ==
    SortByScore([i \in 1..Len(items) |->
        LET r == items[i]
            base == IF r.rerank_score # NoScore THEN r.rerank_score
                    ELSE IF r.score = NoScore THEN 0 ELSE r.score
        IN [r EXCEPT !.rerank_score = base + r.author_bias]], <<>>)

\* lines 361-366: the bias taken off again, then sort
RemoveAuthorBias(items) ==
    SortByScore([i \in 1..Len(items) |->
        [items[i] EXCEPT !.rerank_score = @ - items[i].author_bias]], <<>>)

\* lines 335-368: the author filter; returns the list and the author_gap flag
AuthorFilter(reranked, query, author_terms) ==
    IF author_terms = {} THEN [reranked |-> reranked, author_gap |-> FALSE]
    ELSE LET biased == AddAuthorBias(reranked)
             query_terms == extract_query_terms(query, author_terms)
             author_hits == SelectSeq(biased, LAMBDA r : author_matches(r, author_terms))
             filtered == SelectSeq(author_hits, LAMBDA r :
                             \E i \in 1..Len(query_terms) : Contains(query_terms[i], r.text))
         IN IF author_hits = <<>> THEN [reranked |-> biased, author_gap |-> FALSE]
            ELSE IF query_terms = <<>> THEN [reranked |-> author_hits, author_gap |-> FALSE]
            ELSE IF filtered # <<>> THEN [reranked |-> filtered, author_gap |-> FALSE]
            ELSE [reranked |-> RemoveAuthorBias(biased), author_gap |-> TRUE]

\* the evidence as judge_evidence and synthesize_answer read it
AsEvidence(items, author_terms) ==
    [i \in 1..Len(items) |->
        EvItem(items[i].id, items[i].source, items[i].offset_start,
               items[i].offset_end,
               FileHit(items[i], author_terms) \/ TextHit(items[i], author_terms))]

\* lines 400-403: under author_gap the non-author results, if there are any
NonAuthorResults(reranked, author_terms, author_gap) ==
    IF author_gap /\ author_terms # {}
    THEN LET non_author == SelectSeq(reranked, LAMBDA r : ~author_matches(r, author_terms))
         IN IF non_author # <<>> THEN non_author ELSE reranked
    ELSE reranked

\* lines 412-420
LowTopScore(reranked) ==
    /\ reranked # <<>>
    /\ LET top_score == IF reranked[1].rerank_score # NoScore
                        THEN reranked[1].rerank_score ELSE reranked[1].score
       IN top_score # NoScore /\ top_score < min_top_rerank_score

\* tags in which the author gap is left out
RetrievalFailuresNoGap(reranked, author_gap) ==
    (IF reranked = <<>> THEN {"no_results"} ELSE {})
    \cup (IF Len(reranked) < min_results_count THEN {"low_result_count"} ELSE {})
    \cup (IF LowTopScore(reranked) THEN {"low_top_score"} ELSE {})

\* lines 405-420
RetrievalFailures(reranked, author_gap) ==
    (IF reranked = <<>> THEN {"no_results"} ELSE {})
    \cup (IF author_gap THEN {"author_gap"} ELSE {})
    \cup (IF Len(reranked) < min_results_count THEN {"low_result_count"} ELSE {})
    \cup (IF LowTopScore(reranked) THEN {"low_top_score"} ELSE {})

\* lines 423-432: 1 - confidence, or 0.7 when float() raises, and the
\* three surcharges
RiskSum(synthesis, retrieval_failures, author_gap) ==
    LET confidence == ReadConfidence(synthesis)
    IN (IF Floatable(confidence) THEN One - confidence.val ELSE 70000)
       + (IF ProvFalsy(synthesis.provenance) THEN 20000 ELSE 0)
       + (IF "low_top_score" \in retrieval_failures THEN 10000 ELSE 0)
       + (IF author_gap THEN 10000 ELSE 0)

\* a risk that is not clamped
HallucinationRiskUnclamped(synthesis, retrieval_failures, author_gap) ==
    RiskSum(synthesis, retrieval_failures, author_gap)

\* lines 423-434: hallucination_risk
HallucinationRisk(synthesis, retrieval_failures, author_gap) ==
    Max(0, Min(One, RiskSum(synthesis, retrieval_failures, author_gap)))

----------------------------------------------------------------------------
(* A /query request: its body, its plan, and the handler at rest *)

\* the queries of the requests
QSenecaFear ==
    <<"What", " ", "does", " ", "Seneca", " ", "say", " ", "about", " ", "fear">>
QSeneca == <<"Seneca">>
QFear   == <<"fear", " ", "not">>
Queries == {QSenecaFear, QSeneca, QFear}

\* The hits of the searches, as the fields of their payload or source dict.
\* "fear_notes" and "fear_seneca" have the same words in another case and
\* with other whitespace; "blank" has no text.
HitOfKind(kind, id) ==
    CASE kind = "fear_notes" ->
           [id |-> id, text |-> <<"Fear", " ", "not">>, source |-> "notes.txt",
            offset_start |-> 5, offset_end |-> 20, score |-> 50000]
      [] kind = "fear_seneca" ->
           [id |-> id, text |-> <<"fear", " ", " ", "NOT", "\n">>,
            source |-> "Seneca_letters.txt",
            offset_start |-> 0, offset_end |-> 9, score |-> 40000]
      [] kind = "death_notes" ->
           [id |-> id, text |-> <<"death", " ", "comes">>, source |-> "notes.txt",
            offset_start |-> 30, offset_end |-> 40, score |-> 30000]
      [] kind = "seneca_says" ->
           [id |-> id, text |-> <<"Seneca", " ", "says">>, source |-> NullV,
            offset_start |-> AbsentOff, offset_end |-> AbsentOff, score |-> NoScore]
      [] kind = "seneca_fear" ->
           [id |-> id, text |-> <<"Seneca", " ", "fear">>,
            source |-> "Seneca_letters.txt",
            offset_start |-> 5, offset_end |-> 20, score |-> 60000]
      [] kind = "seneca_file" ->
           [id |-> id, text |-> <<"virtue", " ", "suffices">>,
            source |-> "Seneca_letters.txt",
            offset_start |-> 5, offset_end |-> 20, score |-> 20000]
      [] OTHER ->
           [id |-> id, text |-> <<>>, source |-> "notes.txt",
            offset_start |-> 5, offset_end |-> 20, score |-> 10000]

HitKinds == {"fear_notes", "fear_seneca", "death_notes", "seneca_says", "blank"}

\* author_lexical_search filters on the source: its hits are in a file of
\* the author
AuthorHitKinds == {"fear_seneca", "seneca_fear", "seneca_file"}

RawIds    == <<"r1", "r2", "r3", "r4">>
AuthorIds == <<"a1", "a2", "a3", "a4">>

HitLists(kinds, ids, n) ==
    {[i \in 1..Len(ks) |-> HitOfKind(ks[i], ids[i])] : ks \in SeqUpTo(kinds, n)}

\* the list of hits a run_agents that returns a list hands to the handler
ListOfHits(hits) == [shape |-> "list", out |-> hits, diagnostics |-> <<>>]

NoResponse ==
    [author_terms |-> {}, author_gap |-> FALSE, retrieval_failures |-> {},
     hallucination_risk |-> 0, results |-> <<>>, answer |-> "",
     provenance |-> ProvList(<<>>), confidence |-> Missing,
     explain_trace |-> ""]

CouldNotSynthesize ==
    "I could not synthesize a confident answer from the available evidence."


QueryNames == <<"q1", "q2", "q3", "q4">>

\* plan_query: the JSON object of the model as it is (with or without a
\* "queries" key and a constraints.domain), or the rule-based plan
Plans ==
    [source : {"llm"}, hasQueries : {TRUE}, constraintsDomain : {NoDomain, "stoic"},
     queries : {Take(QueryNames, k) : k \in 0..MaxQueries}]
    \cup [source : {"llm"}, hasQueries : {FALSE}, constraintsDomain : {NoDomain, "stoic"},
          queries : {<<>>}]
    \cup [source : {"rules"}, hasQueries : {TRUE}, constraintsDomain : {NoDomain},
          queries : {<<"query">>, <<"Stoic advice on fear", "Seneca fear wisdom">>}]

Requests ==
    {[user_id |-> u, query |-> q, text |-> IF q THEN QSenecaFear ELSE <<>>,
      prefsDomain |-> p, domain_fallbacks |-> f] :
        u \in BOOLEAN, q \in BOOLEAN, p \in {NoDomain, "legal"},
        f \in {<<>>, <<"legal">>}}

NoPlan ==
    [queries |-> <<>>, domain |-> NoDomain, domain_source |-> "unknown",
     fallback_domains |-> <<>>]

NoRaw == [shape |-> "none"]

\* a check that looks at query only
WellFormedQueryOnly(r) == r.query

\* lines 183: "query" in body and "user_id" in body
WellFormed(r) == r.user_id /\ r.query

FusionIdle ==
    /\ fList = <<>>
    /\ fAuthorHits = <<>>
    /\ fAuthorGap = FALSE
    /\ fResp = NoResponse

HandlerIdle ==
    /\ FusionIdle
    /\ hReq = [user_id |-> FALSE, query |-> FALSE, text |-> <<>>,
               prefsDomain |-> NoDomain, domain_fallbacks |-> <<>>]
    /\ hPlan = NoPlan
    /\ tasks = <<>>
    /\ raw = NoRaw
    /\ hStatus = 0

----------------------------------------------------------------------------
(* speculative.py: plan_query *)

\* The outcome of the planner's LLM call: text holding a non-empty JSON object
\* (returned as it is), text holding the empty object {}, text without a JSON
\* object, or an exception of llm.completion.
LlmPlan(queries) ==
    [raised |-> FALSE, source |-> "llm", intent |-> "from the model",
     hypotheses |-> <<>>, queries |-> queries, constraints |-> {"domain"}]

PlannerLlmOutcomes ==
    {[kind |-> "json", plan |-> LlmPlan(qs)] :
         qs \in {<<>>, <<<<"death">>>>}}
    \cup {[kind |-> k, plan |-> LlmPlan(<<>>)] :
             k \in {"empty_object", "non_json", "raises"}}

\* w in q, for a trigger word w and the lower-cased query q: the word occurs
\* inside a token of the query
Occurs(w, tok) == tok = w \/ (w = "fear" /\ tok = "fearless")

TriggerWords == {"fear", "anxiety", "worry"}

RulesTriggeredKeepsCase(user_query) ==
    \E w \in TriggerWords : \E i \in 1..Len(user_query) : Occurs(w, user_query[i])

\* lines 37-38: any(w in q for w in ["fear", "anxiety", "worry"]), q the
\* lower-cased query
RulesTriggered(user_query) ==
    LET q == LowerText(user_query)
    IN \E w \in TriggerWords : \E i \in 1..Len(q) : Occurs(w, q[i])

StoicAdviceOnFear == <<"Stoic", " ", "advice", " ", "on", " ", "fear">>
SenecaFearWisdom  == <<"Seneca", " ", "fear", " ", "wisdom">>

\* lines 33-45: the fallback rules
RulePlan(user_query) ==
    LET triggered == RulesTriggered(user_query)
        queries   == IF triggered THEN <<StoicAdviceOnFear, SenecaFearWisdom>> ELSE <<>>
    IN [raised |-> FALSE, source |-> "rules",
        intent |-> IF triggered THEN "stoic-guidance" ELSE "general",
        hypotheses |-> IF triggered THEN <<"User seeks Stoic emotional guidance">>
                       ELSE <<>>,
        queries |-> IF queries = <<>> THEN <<user_query>> ELSE queries,
        constraints |-> {}]

\* lines 25-31: the try block returns the parsed object when it is truthy;
\* an exception of the call is swallowed; everything else falls through to
\* the rules
plan_query(user_query, llm) ==
    IF llm.kind = "json" THEN llm.plan ELSE RulePlan(user_query)

PlanWords == {"Fear", "fearless", "worried", "Anxiety", "worry", "death"}

\* the query strings: up to MaxWords words, joined by blanks
PlanQueryTexts == {Join(ws) : ws \in SeqUpTo(PlanWords, MaxWords)}

NoPlanOutput ==
    [raised |-> FALSE, source |-> "none", intent |-> "", hypotheses |-> <<>>,
     queries |-> <<>>, constraints |-> {}]

----------------------------------------------------------------------------
(* agents.py: route_domain *)

domain_min_keyword_hits == 2

\* s in q, for a lower-cased name or keyword s and the lower-cased query q
InQuery(s, q) == \E i \in 1..Len(q) : Occurs(s, q[i])

\* constraints.get("domain") and preferences.get("domain"): nothing (no dict,
\* no key, or a falsy value) or a name
DomainValues == {NoDomain, "stoic", "Legal"}

\* _list_domain_indices(): the domains that have an index, in the order of
\* the index listing
IndexedDomains == {<<>>, <<"stoic">>, <<"legal", "stoic">>, <<"stoic", "legal">>}

StoicKeywords ==
    [domain |-> "stoic", keywords |-> {"fear", "death"}, aliases |-> {"seneca"}]
LegalKeywords ==
    [domain |-> "legal", keywords |-> {"contract", "death"}, aliases |-> {}]

\* settings.domain_keywords with settings.domain_aliases, in the order of the
\* keys of domain_keywords
KeywordMaps == {<<>>, <<StoicKeywords, LegalKeywords>>, <<LegalKeywords, StoicKeywords>>}

\* lines 410-418: one point for each keyword, two for each alias and two for
\* the name of the domain, when they occur in the query
DomainScore(entry, q) ==
    Cardinality({kw \in entry.keywords : InQuery(Lower(kw), q)})
    + 2 * Cardinality({alias \in entry.aliases : InQuery(Lower(alias), q)})
    + (IF entry.domain # "" /\ InQuery(Lower(entry.domain), q) THEN 2 ELSE 0)

RECURSIVE ScoreLoopLastWins(_, _, _, _, _)
ScoreLoopLastWins(map, q, i, best_domain, best_score) ==
    IF i > Len(map) THEN [domain |-> best_domain, score |-> best_score]
    ELSE LET score == DomainScore(map[i], q)
         IN IF score >= best_score /\ score > 0
            THEN ScoreLoopLastWins(map, q, i + 1, map[i].domain, score)
            ELSE ScoreLoopLastWins(map, q, i + 1, best_domain, best_score)

\* lines 407-421: the loop over domain_keywords, from entry i on
RECURSIVE ScoreLoop(_, _, _, _, _)
ScoreLoop(map, q, i, best_domain, best_score) ==
    IF i > Len(map) THEN [domain |-> best_domain, score |-> best_score]
    ELSE LET score == DomainScore(map[i], q)
         IN IF score > best_score
            THEN ScoreLoop(map, q, i + 1, map[i].domain, score)
            ELSE ScoreLoop(map, q, i + 1, best_domain, best_score)

route_domain(query, constraintsDomain, prefsDomain, indices, map) ==
    IF constraintsDomain # NoDomain THEN Lower(constraintsDomain)
    ELSE IF prefsDomain # NoDomain THEN Lower(prefsDomain)
    ELSE LET q        == LowerText(query)
             mentions == SelectSeq(indices, LAMBDA d : d # "" /\ InQuery(Lower(d), q))
             best     == ScoreLoop(map, q, 1, NoDomain, 0)
         IN IF mentions # <<>> THEN Head(mentions)
            ELSE IF best.score >= domain_min_keyword_hits THEN best.domain
            ELSE NoDomain

RouteWords == {"Fear", "death", "Seneca", "contract", "Legal", "stoic"}

RouteQueryTexts == {Join(ws) : ws \in SeqUpTo(RouteWords, MaxWords)}

----------------------------------------------------------------------------
(* agents.py: apply_policy_rules *)

\* c in text.lower()
InText(c, text) == \E i \in 1..Len(text) : Lower(text[i]) = c

\* _match_rule (lines 437-449)
match_rule(rule, text, source_type, domain) ==
    /\ ~(rule.domains # {} /\ domain \notin rule.domains)
    /\ ~(rule.source_types # {} /\ source_type \notin rule.source_types)
    /\ ~(rule.contains # {} /\ ~\E c \in rule.contains : InText(c, text))
    /\ ~(rule.not_contains # {} /\ \E c \in rule.not_contains : InText(c, text))

\* (rule.get("action") or "").lower()
RuleAction(rule) ==
    CASE rule.action \in {"deny", "Deny"} -> "deny"
      [] rule.action = "allow" -> "allow"
      [] OTHER -> rule.action

RECURSIVE DecisionLastWins(_, _, _)
DecisionLastWins(rules, r, decision) ==
    IF rules = <<>> THEN decision
    ELSE LET rule == Head(rules)
             action == RuleAction(rule)
         IN IF action \in {"allow", "deny"}
               /\ match_rule(rule, r.text, r.source_type, r.domain)
            THEN DecisionLastWins(Tail(rules), r, action)
            ELSE DecisionLastWins(Tail(rules), r, decision)

\* lines 466-474: the loop over the rules stops at the first rule with a valid
\* action that matches
RECURSIVE Decision(_, _, _)
Decision(rules, r, decision) ==
    IF rules = <<>> THEN decision
    ELSE LET rule == Head(rules)
             action == RuleAction(rule)
         IN IF action \in {"allow", "deny"}
               /\ match_rule(rule, r.text, r.source_type, r.domain)
            THEN action
            ELSE Decision(Tail(rules), r, decision)

\* lines 455-464: the allow-list and the source_type / domain sets
PolicyRejects(r, p) ==
    \/ p.allowlist # {} /\ ~\E a \in p.allowlist : InText(a, r.text)
    \/ p.source_types_allow # {} /\ r.source_type # ""
           /\ r.source_type \notin p.source_types_allow
    \/ p.source_types_block # {} /\ r.source_type # ""
           /\ r.source_type \in p.source_types_block
    \/ p.domains_allow # {} /\ r.domain # "" /\ r.domain \notin p.domains_allow
    \/ p.domains_block # {} /\ r.domain # "" /\ r.domain \in p.domains_block

\* apply_policy_rules (lines 451-483); p holds the arguments but results
apply_policy_rules(results, p) ==
    SelectSeq(results,
              LAMBDA r : /\ ~PolicyRejects(r, p)
                         /\ Decision(p.rules, r, "none") # "deny")

\* the items: text, source_type and domain as query_endpoint normalises them
PolicyItemKinds ==
    {[text |-> <<"x">>, source_type |-> "pdf", domain |-> "legal"],
     [text |-> <<"X", " ", "y">>, source_type |-> "", domain |-> ""],
     [text |-> <<"y">>, source_type |-> "pdf", domain |-> ""],
     [text |-> <<"y">>, source_type |-> "web", domain |-> "legal"]}

PolicyItems ==
    {[i \in 1..Len(ks) |->
         [id |-> i, text |-> ks[i].text, source_type |-> ks[i].source_type,
          domain |-> ks[i].domain]] : ks \in SeqUpTo(PolicyItemKinds, MaxItems)}

Rule(action, contains, not_contains, domains) ==
    [action |-> action, contains |-> contains, not_contains |-> not_contains,
     domains |-> domains, source_types |-> {}]

DenyX  == Rule("deny", {"x"}, {}, {})
AllowX == Rule("allow", {"x"}, {}, {})

PolicyRules ==
    {DenyX, AllowX, Rule("Deny", {}, {"x"}, {}), Rule("log", {"x"}, {}, {}),
     Rule("allow", {}, {}, {"legal"})}

PolicyInputs ==
    [results : PolicyItems, allowlist : {{}, {"x"}, {"y"}},
     source_types_allow : {{}, {"pdf"}}, source_types_block : {{}, {"pdf"}},
     domains_allow : {{}, {"legal"}}, domains_block : {{}, {"legal"}},
     rules : SeqUpTo(PolicyRules, MaxRules)]

----------------------------------------------------------------------------
(* agents.py: _list_domain_indices and its module-level cache *)

\* _DOMAIN_INDEX_CACHE = None
EmptyCache == [filled |-> FALSE, domains |-> <<>>]

\* the domains an index can exist for
BackendDomains == {"stoic", "legal", "seneca"}

\* _list_domain_indices: the cache when it is not None; else the listing of
\* the backend, or nothing when the backend raises, kept as the cache
list_domain_indices(cache, backend, outcome) ==
    IF cache.filled THEN [domains |-> cache.domains, cache |-> cache]
    ELSE LET domains == IF outcome = "ok" THEN backend ELSE <<>>
         IN [domains |-> domains, cache |-> [filled |-> TRUE, domains |-> domains]]

----------------------------------------------------------------------------
(* store.py: the audit log.  A row of query_audit is kept with its id, its
   user_id and its created_at; a cursor is the text "<created_at>|<id>",
   modelled as the sequence of its three parts. *)

AuditUsers == {"u1", "u2"}
NoUser == ""
NoCursor == <<>>
NoPosition == [created_at |-> -1, id |-> -1]

\* _encode_cursor
encode_cursor(created_at, row_id) == <<created_at, "|", row_id>>

\* _decode_cursor: (None, None) when the token does not split in two numbers
decode_cursor(token) ==
    IF Len(token) = 3 /\ token[2] = "|"
    THEN [created_at |-> token[1], id |-> token[3]]
    ELSE NoPosition

\* a cursor clause that compares created_at only
CursorClauseTimeOnly(r, created_at, row_id) == r.created_at < created_at

\* AND (created_at < ? OR (created_at = ? AND id < ?))
CursorClause(r, created_at, row_id) ==
    \/ r.created_at < created_at
    \/ r.created_at = created_at /\ r.id < row_id

\* ORDER BY created_at DESC, id DESC
RECURSIVE OrderByCreatedAtIdDesc(_)
OrderByCreatedAtIdDesc(S) ==
    IF S = {} THEN <<>>
    ELSE LET first == CHOOSE r \in S : \A q \in S \ {r} :
                          \/ q.created_at < r.created_at
                          \/ q.created_at = r.created_at /\ q.id < r.id
         IN <<first>> \o OrderByCreatedAtIdDesc(S \ {first})

\* fetch_audit_logs
fetch_audit_logs(rows, limit, user_id, cursor) ==
    LET at == IF Len(cursor) > 0 THEN decode_cursor(cursor) ELSE NoPosition
        selected == {rows[i] : i \in {j \in 1..Len(rows) :
                        /\ (user_id # NoUser => rows[j].user_id = user_id)
                        /\ (at # NoPosition =>
                              CursorClause(rows[j], at.created_at, at.id))}}
        page == Take(OrderByCreatedAtIdDesc(selected), limit)
    IN [i \in 1..Len(page) |->
          [user_id |-> page[i].user_id, created_at |-> page[i].created_at,
           cursor |-> encode_cursor(page[i].created_at, page[i].id)]]

\* api.py audit_endpoint
audit_endpoint(rows, user_id, limit, cursor) ==
    LET results == fetch_audit_logs(rows, Max(1, Min(limit, 1000)), user_id, cursor)
    IN [results |-> results,
        next_token |-> IF Len(results) > 0 THEN results[Len(results)].cursor
                       ELSE NoCursor]

----------------------------------------------------------------------------
(* main.py: the rate_limit middleware.  Times are in seconds. *)

\* settings.rate_limit_per_minute: a limit L > 0, small enough to be exceeded
rate_limit_per_minute == 2

ExemptPaths == {"/health", "/metrics", "/v1/metrics"}
Paths == ExemptPaths \cup {"/v1/query"}

\* request.headers.get("x-forwarded-for") or request.client.host
ClientKeys == {"10.0.0.1", "10.0.0.2"}

\* window = now - (now % 60)
WindowOf(now) == now - (now % 60)

Windows == {WindowOf(t) : t \in 0..MaxNow}

\* a limiter that lets one request too many through
OverLimitOffByOne(count) == count > rate_limit_per_minute + 1

\* line 38: count > limit
OverLimit(count) == count > rate_limit_per_minute

\* bucket.get(key, 0) of an empty bucket
EmptyBucket == [k \in ClientKeys |-> 0]

\* lines 31-37: the count is taken in the bucket of the window, then every
\* older window is dropped
Counted(state, window, key) ==
    LET bucket == IF window \in DOMAIN state THEN state[window] ELSE EmptyBucket
        count  == bucket[key] + 1
        kept   == {ts \in DOMAIN state \cup {window} : ~(ts < window)}
    IN [ts \in kept |-> IF ts = window THEN [bucket EXCEPT ![key] = count]
                        ELSE state[ts]]

----------------------------------------------------------------------------
(* llm_client.py: GeminiREST.completion.  Times are in hundredths of a second. *)

llm_max_retries == 3
llm_retry_base_s == 50
llm_max_concurrent == 2

\* The concurrent completion calls (planner, judge, synthesis, naturalize, of
\* any number of requests): one more than llm_max_concurrent.
Calls == 1..MaxCalls

\* random.uniform(0, 0.25)
Jitters == {0, 12, 25}

\* resp.status_code
StatusCodes == {200, 429, 500}

RECURSIVE Pow2(_)
Pow2(n) == IF n <= 0 THEN 1 ELSE 2 * Pow2(n - 1)

\* backoff = llm_retry_base_s * 2 ** (attempt - 1), plus the jitter
Backoff(attempt, jitter) == llm_retry_base_s * Pow2(attempt - 1) + jitter

\* The calls that have entered completion and have neither returned nor raised.
InFlight == {c \in Calls : lPc[c] \in {"post", "sleep"}}

LlmIdle ==
    /\ lEnabled = TRUE
    /\ lPc = [c \in Calls |-> "idle"]
    /\ lAttempt = [c \in Calls |-> 0]
    /\ lBackoff = [c \in Calls |-> 0]

PlanIdle ==
    /\ pIn = [user_query |-> <<>>, llm |-> [kind |-> "raises", plan |-> LlmPlan(<<>>)]]
    /\ pOut = NoPlanOutput
    /\ pPc = "idle"

RouteIdle ==
    /\ rIn = [query |-> <<>>, constraintsDomain |-> NoDomain, prefsDomain |-> NoDomain,
              indices |-> <<>>, map |-> <<>>]
    /\ rOut = NoDomain
    /\ rPc = "idle"

PolicyIdle ==
    /\ kIn = [results |-> <<>>, allowlist |-> {}, source_types_allow |-> {},
              source_types_block |-> {}, domains_allow |-> {}, domains_block |-> {},
              rules |-> <<>>]
    /\ kOut = <<>>
    /\ kPc = "idle"

NoRequest == [path |-> "", key |-> "", window |-> 0, status |-> 0]

RateIdle ==
    /\ rlState = <<>>
    /\ rlNow = 0
    /\ rlPassed = <<>>
    /\ rlLast = NoRequest

AuditIdle ==
    /\ aRows = <<>>
    /\ aNow = 0
    /\ aCursor = <<>>
    /\ aSeen = <<>>
    /\ aStart = {}
    /\ aPc = "idle"
    /\ aUser = ""

CacheIdle ==
    /\ dBackend = <<>>
    /\ dCache = EmptyCache
    /\ dOut = NoDomain
    /\ dCalls = 0

MoreIdle == PolicyIdle /\ RateIdle /\ AuditIdle /\ CacheIdle

UnitIdle == LlmIdle /\ PlanIdle /\ RouteIdle /\ MoreIdle

----------------------------------------------------------------------------
(* judge_evidence: its inputs, and the judge at rest *)

JudgeEvidenceLists ==
    {<<>>, <<[id |-> "c1"]>>, <<[id |-> "c1"], [id |-> "c2"]>>,
     <<[id |-> ""], [id |-> "c2"], [id |-> "c3"], [id |-> "c4"]>>}

NoJudgeOutput ==
    [confidence |-> Missing, trusted_ids |-> <<>>, notes |-> <<>>,
     contradictions |-> <<>>]

JudgeIdle ==
    /\ jIn = [evidence |-> <<>>,
              llm |-> [kind |-> "error", confidence |-> Missing, trusted_ids |-> <<>>],
              gr |-> NoGraphReasoning]
    /\ jOut = NoJudgeOutput
    /\ jPc = "idle"

(* Specification of synthesize_answer over its inputs *)

IdOf == <<"c1", "c2", "c3", "c4", "c5", "c6">>

\* Evidence lists: the item at position i has id IdOf[i] and is "full" (source
\* and offsets), "bare" (source and offsets are None, as api.py's normalisation
\* leaves them for a hit without them) or "author" (full, from an author's file)
ItemOfKind(i, kind) ==
    IF kind = "bare" THEN EvItem(IdOf[i], NullV, NoneOff, NoneOff, FALSE)
    ELSE IF kind = "author" THEN EvItem(IdOf[i], "seneca_letters.txt", 10 * i, 10 * i + 9, TRUE)
    ELSE EvItem(IdOf[i], "notes.txt", 10 * i, 10 * i + 9, FALSE)

SynthEvidenceLists ==
    {[i \in 1..Len(k) |-> ItemOfKind(i, k[i])] :
        k \in SeqUpTo({"full", "bare", "author"}, MaxEvidence)}

\* The entries the model may put in its provenance list: a dict naming an
\* evidence id ("c1"), an id outside the evidence ("ghost"), a chunk_id
\* ("c2") or no id, with a complete triple of its own, none, or nulls;
\* or something that is not a dict
ProvEntry(id, chunk_id, triple) ==
    [dict |-> TRUE, id |-> id, chunk_id |-> chunk_id,
     source |-> IF triple = "own" THEN "llm.txt"
                ELSE IF triple = "null" THEN NullV ELSE Absent,
     offset_start |-> IF triple = "own" THEN 0
                      ELSE IF triple = "null" THEN NoneOff ELSE AbsentOff,
     offset_end |-> IF triple = "own" THEN 9
                    ELSE IF triple = "null" THEN NoneOff ELSE AbsentOff]

NotADict ==
    [dict |-> FALSE, id |-> Absent, chunk_id |-> Absent, source |-> Absent,
     offset_start |-> AbsentOff, offset_end |-> AbsentOff]

ProvEntries ==
    {ProvEntry(x[1], x[2], t) :
        x \in {<<Absent, Absent>>, <<"c1", Absent>>, <<"ghost", Absent>>,
               <<Absent, "c2">>},
        t \in {"own", "none", "null"}}
    \cup {NotADict}

\* what the model may put under "provenance"
LlmProvenances ==
    {ProvList(l) : l \in SeqUpTo(ProvEntries, MaxProv)}
    \cup {ProvObject(p) : p \in ProvEntries \ {NotADict}}
    \cup {ProvNothing}

\* the judge outputs synthesis reads: trusted_ids and confidence
SynthJudgeOutputs ==
    [confidence : {Missing, Num(50000)},
     trusted_ids : {<<>>, <<"c2">>, <<"ghost", "c1">>},
     notes : {<<>>}, contradictions : {<<>>}]

SynthJson(prov, natural, confidence, trace) ==
    [kind |-> "json", provenance |-> prov, natural |-> natural,
     confidence |-> confidence, explain_trace |-> trace]

SynthNoJson(kind) == [SynthJson(ProvNothing, FALSE, Missing, Absent) EXCEPT !.kind = kind]

\* The inputs: every provenance value with every evidence list and trusted
\* list; and every outcome of the two LLM calls with every evidence list,
\* judge output and author flag
SynthInputs ==
    [evidence : SynthEvidenceLists,
     jo : {j \in SynthJudgeOutputs : j.confidence = Missing},
     hasAuthor : {FALSE}, author_gap : {FALSE}, sentences : {"clean"},
     llm : {SynthJson(p, TRUE, Num(90000), Absent) : p \in LlmProvenances},
     natOk : {TRUE}]
    \cup
    [evidence : SynthEvidenceLists,
     jo : SynthJudgeOutputs,
     hasAuthor : BOOLEAN, author_gap : BOOLEAN,
     sentences : {"none", "clean", "technical"},
     llm : {SynthJson(p, n, c, t) :
                p \in {ProvNothing, ProvList(<<>>)}, n \in BOOLEAN,
                c \in {Missing, Num(90000), Num(150000), NonNumeric},
                t \in {Absent, "grounded in c1"}}
           \cup {SynthNoJson(k) : k \in {"raises", "non_json", "empty", "timeout", "error"}},
     natOk : BOOLEAN]

NoSynthesis ==
    [answer |-> "", provenance |-> ProvList(<<>>), confidence |-> Missing,
     explain_trace |-> "synthesis_disabled"]

SynthIdle ==
    /\ sIn = [evidence |-> <<>>, jo |-> NoJudgeOutput, hasAuthor |-> FALSE,
              author_gap |-> FALSE, sentences |-> "none",
              llm |-> SynthNoJson("error"), natOk |-> FALSE]
    /\ sOut = NoSynthesis
    /\ sPc = "idle"

SynthInit ==
    /\ sIn \in SynthInputs
    /\ sOut = NoSynthesis
    /\ sPc = "call"
    /\ JudgeIdle
    /\ hPc = "idle"
    /\ HandlerIdle
    /\ UnitIdle

SynthCall ==
    /\ sPc = "call"
    /\ sOut' = synthesize_answer(sIn.evidence, sIn.jo, sIn.hasAuthor, sIn.author_gap,
                                 sIn.sentences, sIn.llm, sIn.natOk)
    /\ sPc' = "done"
    /\ UNCHANGED <<sIn, judgeVars, handlerVars, unitVars>>

SpecSynth == SynthInit /\ [][SynthCall]_vars

\* the id an entry names: p.get("id") or p.get("chunk_id")
EvidenceIdSet(evidence) == {evidence[i].id : i \in 1..Len(evidence)}

\* C8: every item of the provenance synthesize_answer returns has a non-null
\* source, offset_start and offset_end.
C8_ProvenanceComplete ==
    sPc = "done" =>
        \A i \in 1..Len(sOut.provenance.items) : Complete(sOut.provenance.items[i])

\* C9: every provenance item synthesize_answer returns names (by id or
\* chunk_id) an item of the evidence list it was given.
C9_ProvenanceIdsInEvidence ==
    sPc = "done" =>
        \A i \in 1..Len(sOut.provenance.items) :
            EntryId(sOut.provenance.items[i]) \in EvidenceIdSet(sIn.evidence)

\* C12: synthesize_answer returns a non-empty answer for every outcome of
\* the primary LLM call and of the naturalize call and for every evidence
\* list, the empty one included.
C12_AnswerNeverEmpty ==
    sPc = "done" => sOut.answer # ""

\* C13: the explain_trace synthesize_answer returns is one of the six tags,
\* synthesis_timeout iff the primary LLM call timed out, synthesis_error iff
\* it raised another error; on the parsed path it does not depend on the
\* explain_trace the model wrote.
C13_ExplainTraceTags ==
    sPc = "done" =>
        /\ sOut.explain_trace \in
               {"success", "synthesis_naturalized", "synthesis_non_json",
                "synthesis_fallback_formatted", "synthesis_timeout", "synthesis_error"}
        /\ sOut.explain_trace = "synthesis_timeout" <=> sIn.llm.kind = "timeout"
        /\ sOut.explain_trace = "synthesis_error" <=> sIn.llm.kind \in {"error", "raises"}

----------------------------------------------------------------------------
(* Specification of judge_evidence over its inputs *)

JudgeInputs ==
    /\ jIn \in [evidence : JudgeEvidenceLists, llm : JudgeLlmOutcomes,
                gr : GraphReasonings]
    /\ jOut = NoJudgeOutput
    /\ jPc = "call"

JudgeCall ==
    /\ jPc = "call"
    /\ jOut' = judge_evidence(jIn.evidence, jIn.llm, jIn.gr)
    /\ jPc' = "done"
    /\ UNCHANGED <<jIn, synthVars, handlerVars, unitVars>>

JudgeInit == JudgeInputs /\ SynthIdle /\ hPc = "idle" /\ HandlerIdle /\ UnitIdle

SpecJudge == JudgeInit /\ [][JudgeCall]_vars

\* the confidence judge_evidence starts from, before the adjustments
BaseConfidence(llm) ==
    IF llm.kind = "json" THEN llm.confidence
    ELSE IF llm.kind = "non_json" THEN Num(40000) ELSE Num(30000)

NumContradicted(gr) == Len(extract_contradictions(gr))

\* C4: the confidence of the JudgeOutput returned by judge_evidence is within
\* [0,1] (stated here for the outputs whose confidence is a number).
C4_ConfidenceInUnitInterval ==
    (jPc = "done" /\ jOut.confidence.kind = "num")
        => (0 <= jOut.confidence.val /\ jOut.confidence.val <= One)

\* C5: whenever the returned JudgeOutput carries a non-empty contradictions
\* list, its confidence is a number not above the contradiction cap.
C5_ContradictionCap ==
    (jPc = "done" /\ Len(jOut.contradictions) > 0)
        => /\ ReadConfidence(jOut).kind = "num"
           /\ ReadConfidence(jOut).val <= judge_contradiction_confidence_cap

\* C6: with n > 0 contradicted claims the final confidence is
\* min(base * (1 - min(penalty_max, penalty_per_claim * n)), cap), whatever
\* the relation conflicts and the relation strength; with none, the boost
\* adds at most judge_relation_boost_max and never lifts confidence above 1.
C6_OnlyContradictionPenalty ==
    (jPc = "done" /\ Floatable(BaseConfidence(jIn.llm)))
        => LET base == BaseConfidence(jIn.llm).val
               n    == NumContradicted(jIn.gr)
               pen  == Min(judge_contradiction_penalty_max,
                           judge_contradiction_penalty_per_claim * n)
               mid  == apply_relation_conflict_penalty(
                           [jOut EXCEPT !.confidence = Num(base)], jIn.gr).confidence.val
           IN IF n > 0
              THEN jOut.confidence.val
                       = Min(Times(base, One - pen), judge_contradiction_confidence_cap)
              ELSE /\ jOut.confidence.val <= mid + judge_relation_boost_max
                   /\ jOut.confidence.val > mid => jOut.confidence.val <= One

\* the ids of the evidence items 1..n, in order; an item without an id has none
RECURSIVE IdsUpTo(_, _)
IdsUpTo(evidence, n) ==
    IF n = 0 THEN <<>>
    ELSE IdsUpTo(evidence, n - 1)
             \o (IF evidence[n].id = "" THEN <<>> ELSE <<evidence[n].id>>)

\* C17: when the judge's LLM call times out, raises or returns text without a
\* JSON object, judge_evidence returns a JudgeOutput that trusts the ids of the
\* first (at most 3) evidence items in order, starts from confidence 0.4 with
\* note judge_non_json (unparseable text) or 0.3 with note judge_error_fallback
\* (timeout, error), and carries the same adjustments as a parsed output with
\* that confidence would.
C17_JudgeFallback ==
    (jPc = "done" /\ jIn.llm.kind # "json")
        => LET ids  == IdsUpTo(jIn.evidence, Min(3, Len(jIn.evidence)))
               base == IF jIn.llm.kind = "non_json" THEN 40000 ELSE 30000
               tag  == IF jIn.llm.kind = "non_json" THEN "judge_non_json"
                       ELSE "judge_error_fallback"
               ok   == judge_evidence(jIn.evidence,
                           [kind |-> "json", confidence |-> Num(base),
                            trusted_ids |-> ids], jIn.gr)
           IN /\ jOut.trusted_ids = ids
              /\ Len(jOut.notes) >= 1
              /\ jOut.notes[1] = tag
              /\ Tail(jOut.notes) = Tail(ok.notes)
              /\ jOut.confidence = ok.confidence
              /\ jOut.contradictions = ok.contradictions
              /\ jIn.gr = NoGraphReasoning => jOut.confidence = Num(base)

\* a timeout with four evidence items, the first without an id, contradicted
\* claims and relation conflicts
C17_Witness ==
    /\ jPc = "done"
    /\ jIn.llm.kind = "timeout"
    /\ Len(jIn.evidence) = 4
    /\ jOut.trusted_ids = <<"c2", "c3">>
    /\ jOut.contradictions # <<>>
    /\ jIn.gr.conflicts > 0
    /\ jOut.confidence.val < 30000

----------------------------------------------------------------------------
(* Specification of a /query request: query_endpoint with run_agents *)

Init ==
    /\ hPc = "validate"
    /\ hReq \in Requests
    /\ hPlan = NoPlan
    /\ tasks = <<>>
    /\ raw = NoRaw
    /\ hStatus = 0
    /\ FusionIdle
    /\ JudgeIdle
    /\ SynthIdle
    /\ UnitIdle

\* lines 182-184: a body without user_id or query is answered with 422
Reject ==
    /\ hPc = "validate"
    /\ ~WellFormed(hReq)
    /\ hStatus' = 422
    /\ hPc' = "done"
    /\ UNCHANGED <<hReq, hPlan, tasks, raw, fusionVars, judgeVars, synthVars, unitVars>>

\* lines 187-240: the plan, the domain and the fallback domains
PlanQuery ==
    /\ hPc = "validate"
    /\ WellFormed(hReq)
    /\ \E plan \in Plans, routed \in {NoDomain, "stoic"} :
         LET domain == RoutedDomain(plan.constraintsDomain, hReq.prefsDomain, routed)
             source == DomainSource(plan.constraintsDomain, hReq.prefsDomain, domain)
         IN \E fbs \in (IF source # "keyword" THEN SetOrders(hReq.domain_fallbacks)
                        ELSE {hReq.domain_fallbacks}) :
              /\ 3 * Len(PlanQueries(plan)) * Len(SearchDomains(domain, fbs)) <= MaxTasks
              /\ hPlan' = [queries |-> PlanQueries(plan), domain |-> domain,
                           domain_source |-> source, fallback_domains |-> fbs]
    /\ hPc' = "run_agents"
    /\ UNCHANGED <<hReq, tasks, raw, hStatus, fusionVars, judgeVars, synthVars, unitVars>>

\* run_agents, lines 360-376: every agent call is created
Dispatch ==
    /\ hPc = "run_agents"
    /\ tasks' = TaskList(hPlan.queries, SearchDomains(hPlan.domain, hPlan.fallback_domains))
    /\ hPc' = "gather"
    /\ UNCHANGED <<hReq, hPlan, raw, hStatus, fusionVars, judgeVars, synthVars, unitVars>>

\* one agent call finishes, in any order, with any outcome of its backend
AgentFinish ==
    /\ hPc = "gather"
    /\ \E t \in 1..Len(tasks), outcome \in {"hits", "empty", "timeout", "error"},
          lines \in 0..MaxLines :
         /\ tasks[t].status = "pending"
         /\ (tasks[t].agent # "structured" \/ outcome # "hits") => lines = 0
         /\ LET res == AgentResult(tasks[t].agent, outcome, lines)
            IN tasks' = [tasks EXCEPT ![t].status = res.status,
                                      ![t].results = res.results]
    /\ UNCHANGED <<hPc, hReq, hPlan, raw, hStatus, fusionVars, judgeVars, synthVars, unitVars>>

\* run_agents, lines 377-393: gather returns when every call has finished
Gather ==
    /\ hPc = "gather"
    /\ \A t \in 1..Len(tasks) : tasks[t].status # "pending"
    /\ raw' = RunAgentsReturn(tasks)
    /\ hPc' = "normalize"
    /\ UNCHANGED <<hReq, hPlan, tasks, hStatus, fusionVars, judgeVars, synthVars, unitVars>>

\* lines 244-263: the normalisation loop over what run_agents returned
Normalize ==
    /\ hPc = "normalize"
    /\ IF NormalizeRaises(raw)
       THEN /\ hStatus' = 500
            /\ hPc' = "done"
            /\ UNCHANGED fList
       ELSE /\ fList' = NormalizeHits(raw.out, 0)
            /\ hPc' = "dedup"
            /\ UNCHANGED hStatus
    /\ UNCHANGED <<hReq, hPlan, tasks, raw, fAuthorHits, fAuthorGap, fResp,
                   judgeVars, synthVars, unitVars>>

Next == Reject \/ PlanQuery \/ Dispatch \/ AgentFinish \/ Gather \/ Normalize

Spec == Init /\ [][Next]_vars

\* the ids of a list of hits
HitIds(hits) == {hits[i].id : i \in 1..Len(hits)}

CountStatus(agent, status) ==
    Cardinality({t \in 1..Len(tasks) : tasks[t].agent = agent /\ tasks[t].status = status})

\* C2: when run_agents returns, every hit id of every successful call is in
\* the merged list and the diagnostics count each timed-out call as timeout
\* and each successful call as ok, whatever the other calls did; and a call
\* that has finished keeps its status and its hits while the others finish.
C2_TimeoutIndependence ==
    /\ [](raw.shape = "tuple" =>
            /\ \A t \in 1..Len(tasks) :
                 /\ tasks[t].status \in {"ok", "zero_hits", "timeout", "error"}
                 /\ tasks[t].status = "ok" => HitIds(tasks[t].results) \subseteq HitIds(raw.out)
            /\ \A a \in DOMAIN raw.diagnostics :
                 /\ raw.diagnostics[a]["timeout"] = CountStatus(a, "timeout")
                 /\ raw.diagnostics[a]["ok"] = CountStatus(a, "ok"))
    /\ [][\A t \in 1..Len(tasks) :
            tasks[t].status # "pending" => tasks'[t] = tasks[t]]_vars

\* one call timed out, another returned hits, and run_agents has returned
C2_Witness ==
    /\ raw.shape = "tuple"
    /\ \E t1, t2 \in 1..Len(tasks) :
         /\ tasks[t1].status = "timeout"
         /\ tasks[t2].status = "ok"
         /\ Len(tasks[t2].results) > 0

\* C3: a /query request with user_id and query ends with a response, never
\* with an unhandled exception.
C3_AlwaysResponds ==
    (hPc = "done" /\ WellFormed(hReq)) => hStatus = 200

\* the domains of the agent calls, in the order of their first call
SearchedDomains == Unique([t \in 1..Len(tasks) |-> tasks[t].domain], <<>>)

\* C14: run_agents searches exactly the routed domain when it was
\* keyword-routed, and otherwise the domain followed by the fallback
\* domains, without repetitions, in first-seen order; a keyword-routed
\* request makes no agent call against a fallback domain.
C14_SearchedDomains ==
    (hPc \in {"gather", "normalize", "done"} /\ tasks # <<>>)
    => IF hPlan.domain_source = "keyword"
       THEN SearchedDomains = <<hPlan.domain>>
       ELSE LET named == Unique((IF hPlan.domain # NoDomain THEN <<hPlan.domain>>
                                 ELSE <<>>) \o hReq.domain_fallbacks, <<>>)
            IN SearchedDomains = (IF named = <<>> THEN <<NoDomain>> ELSE named)

\* the hits of the agent calls in dispatch order: sub-query, then domain, then
\* vector, lexical, structured
Dispatched ==
    LET RECURSIVE Cat(_)
        Cat(t) == IF t = 0 THEN <<>> ELSE Cat(t - 1) \o tasks[t].results
    IN Cat(Len(tasks))

\* the position of the first hit with this id among the hits dispatched
FirstAt(all, id) == CHOOSE i \in 1..Len(all) :
                        all[i].id = id /\ \A j \in 1..(i - 1) : all[j].id # id

\* C21: the merged list of run_agents holds each hit id once, in dispatch
\* order, the first occurrence of an id being the hit kept; the merged list and
\* the diagnostics are determined by the outcomes of the calls alone, whatever
\* the order in which the calls complete; run_agents returns only after every
\* dispatched call has finished.
C21_MergedInDispatchOrder ==
    raw.shape = "tuple" =>
        LET all == Dispatched
            out == raw.out
        IN /\ \A t \in 1..Len(tasks) : tasks[t].status # "pending"
           /\ \A i, j \in 1..Len(out) : out[i].id = out[j].id => i = j
           /\ \A k \in 1..Len(all) : \E i \in 1..Len(out) : out[i].id = all[k].id
           /\ \A i \in 1..Len(out) :
                /\ \E k \in 1..Len(all) : all[k].id = out[i].id
                /\ out[i] = all[FirstAt(all, out[i].id)]
           /\ \A i, j \in 1..Len(out) :
                i < j => FirstAt(all, out[i].id) < FirstAt(all, out[j].id)
           /\ \A a \in DOMAIN raw.diagnostics :
                \A k \in {"ok", "zero_hits", "timeout", "error"} :
                    raw.diagnostics[a][k] = CountStatus(a, k)

\* the vector and the lexical call returned the shared document: the merged
\* list keeps the vector hit and drops the lexical one
C21_Witness ==
    /\ raw.shape = "tuple"
    /\ Len(Dispatched) > Len(raw.out)
    /\ \E i \in 1..Len(raw.out) : raw.out[i] = Hit(DocId("d2"), "vector")
    /\ \E t \in 1..Len(tasks) : tasks[t].agent = "lexical" /\ tasks[t].status = "ok"
    /\ \E t \in 1..Len(tasks) : tasks[t].status = "timeout"

C24_HappyPath ==
    (/\ hPc = "done"
     /\ hReq.user_id /\ hReq.query
     /\ tasks # <<>>
     /\ \A t \in 1..Len(tasks) : tasks[t].status = "ok")
        => /\ hStatus = 200
           /\ fResp # NoResponse
           /\ \A i \in 1..Len(fResp.results) :
                \E k \in 1..Len(raw.out) : raw.out[k].id = fResp.results[i].id

\* C26: in the diagnostics of run_agents, for each of vector, lexical and
\* structured, attempted = ok + zero_hits + timeout + error and attempted =
\* (number of sub-queries) x (number of searched domains), whatever the
\* outcomes of the calls; with no sub-query there is no call and no counter.
C26_DiagnosticsAddUp ==
    raw.shape = "tuple" =>
        IF tasks = <<>> THEN DOMAIN raw.diagnostics = {}
        ELSE \A a \in {"vector", "lexical", "structured"} :
                /\ a \in DOMAIN raw.diagnostics
                /\ LET d == raw.diagnostics[a]
                   IN /\ d["attempted"]
                           = d["ok"] + d["zero_hits"] + d["timeout"] + d["error"]
                      /\ d["attempted"] = Len(hPlan.queries) * Len(SearchedDomains)

\* two sub-queries; a vector call failed, another timed out, another had hits
C26_Witness ==
    /\ raw.shape = "tuple"
    /\ Len(hPlan.queries) = 2
    /\ raw.diagnostics["vector"]["attempted"] = 2
    /\ raw.diagnostics["vector"]["error"] = 1
    /\ raw.diagnostics["vector"]["ok"] = 1
    /\ raw.diagnostics["lexical"]["timeout"] = 1
    /\ raw.diagnostics["structured"]["zero_hits"] = 1

\* C27: an agent call reports status ok iff the hit list it returns is not
\* empty (with zero_hits, timeout or error the list is empty), for
\* structured_search also when the lexical search under it had hits and none
\* of their lines qualified.
C27_OkIffHits ==
    \A t \in 1..Len(tasks) :
        tasks[t].status # "pending"
            => (tasks[t].status = "ok" <=> Len(tasks[t].results) > 0)

\* C19: the list of sub-queries handed to run_agents is never empty: for every
\* output of the planner (an object without a queries key or with an empty
\* queries list included) and for the rule-based plan, it defaults to the raw
\* query.
C19_PlanHasSubQuery ==
    hPc \in {"run_agents", "gather", "normalize"} => Len(hPlan.queries) >= 1

----------------------------------------------------------------------------
(* Specification of the fusion stages: query_endpoint from the            *)
(* normalisation loop on, over a list of hits. The loop is written for a   *)
(* run_agents that returns the list of hits, as the stub of                *)
(* tests/test_api.py does.                                                 *)

AuthorTerms == extract_author_mentions(hReq.text)

\* the outcomes of the judge's and of the synthesis' LLM call in a request
FusionJudgeLlm ==
    {[kind |-> "error", confidence |-> Missing, trusted_ids |-> <<>>],
     [kind |-> "json", confidence |-> Num(150000), trusted_ids |-> <<"r1">>],
     [kind |-> "json", confidence |-> NonNumeric, trusted_ids |-> <<>>]}

FusionSynthLlm ==
    {SynthJson(ProvNothing, TRUE, Missing, Absent),
     SynthJson(ProvList(<<>>), TRUE, Num(-50000), Absent),
     SynthJson(ProvNothing, TRUE, Null, Absent),
     SynthJson(ProvNothing, TRUE, Num(90000), Absent),
     SynthNoJson("timeout")}

\* the domains with an index while the requests of this specification run;
\* domain_keywords is empty, as config.py has it
FusionIndices == <<"seneca">>

FusionInit ==
    /\ hPc = "normalize"
    /\ hReq \in [user_id : {TRUE}, query : {TRUE}, text : Queries,
                 prefsDomain : {NoDomain, "legal"}, domain_fallbacks : {<<>>}]
    /\ hPlan = LET domain == route_domain(hReq.text, NoDomain, hReq.prefsDomain,
                                          FusionIndices, <<>>)
               IN [queries |-> <<"q1">>, domain |-> domain,
                   domain_source |-> DomainSource(NoDomain, hReq.prefsDomain, domain),
                   fallback_domains |-> <<>>]
    /\ tasks = <<>>
    /\ raw \in {ListOfHits(hits) : hits \in HitLists(HitKinds, RawIds, MaxRaw)}
    /\ hStatus = 0
    /\ FusionIdle
    /\ JudgeIdle
    /\ SynthIdle
    /\ UnitIdle

\* lines 277-287: the first dedup and the author bias
Dedup ==
    /\ hPc = "dedup"
    /\ fList' = apply_author_bias(Dedupe(fList, <<>>), AuthorTerms)
    /\ hPc' = "expand"
    /\ UNCHANGED <<hReq, hPlan, tasks, raw, hStatus, fAuthorHits, fAuthorGap, fResp,
                   judgeVars, synthVars, unitVars>>

\* lines 288-333: the author-guided expansion and the second dedup
ExpandAuthor ==
    /\ hPc = "expand"
    /\ IF AuthorTerms = {}
       THEN UNCHANGED <<fList, fAuthorHits>>
       ELSE \E hits \in HitLists(AuthorHitKinds, AuthorIds, MaxAuthorHits) :
              /\ fAuthorHits' = hits
              /\ fList' = Dedupe(fList \o NormalizeHits(hits, 80000), <<>>)
    /\ hPc' = "rerank"
    /\ UNCHANGED <<hReq, hPlan, tasks, raw, hStatus, fAuthorGap, fResp,
                   judgeVars, synthVars, unitVars>>

\* line 334
Rerank ==
    /\ hPc = "rerank"
    /\ \E outcome \in {"fail", "relevant", "reversed", "tied"} :
         fList' = rerank(fList, outcome)
    /\ hPc' = "author_filter"
    /\ UNCHANGED <<hReq, hPlan, tasks, raw, hStatus, fAuthorHits, fAuthorGap, fResp,
                   judgeVars, synthVars, unitVars>>

\* lines 335-368
FilterByAuthor ==
    /\ hPc = "author_filter"
    /\ LET f == AuthorFilter(fList, hReq.text, AuthorTerms)
       IN /\ fList' = f.reranked
          /\ fAuthorGap' = f.author_gap
    /\ hPc' = "judge"
    /\ UNCHANGED <<hReq, hPlan, tasks, raw, hStatus, fAuthorHits, fResp,
                   judgeVars, synthVars, unitVars>>

\* lines 387-392, with graph_enabled = False
Judge ==
    /\ hPc = "judge"
    /\ \E llm \in FusionJudgeLlm :
         LET evidence == AsEvidence(fList, AuthorTerms)
         IN /\ jIn' = [evidence |-> evidence, llm |-> llm, gr |-> NoGraphReasoning]
            /\ jOut' = judge_evidence(evidence, llm, NoGraphReasoning)
    /\ hPc' = "synthesize"
    /\ UNCHANGED <<hReq, hPlan, tasks, raw, hStatus, fusionVars, jPc, synthVars, unitVars>>

\* lines 394-398
Synthesize ==
    /\ hPc = "synthesize"
    /\ \E llm \in FusionSynthLlm :
         LET in == [evidence |-> AsEvidence(fList, AuthorTerms), jo |-> jOut,
                    hasAuthor |-> AuthorTerms # {}, author_gap |-> fAuthorGap,
                    sentences |-> "clean", llm |-> llm, natOk |-> TRUE]
             s == synthesize_answer(in.evidence, in.jo, in.hasAuthor, in.author_gap,
                                    in.sentences, in.llm, in.natOk)
         IN /\ sIn' = in
            /\ sOut' = IF s.answer = "" /\ s.explain_trace = "synthesis_unavailable"
                       THEN [s EXCEPT !.answer = CouldNotSynthesize] ELSE s
    /\ hPc' = "respond"
    /\ UNCHANGED <<hReq, hPlan, tasks, raw, hStatus, fusionVars, sPc, judgeVars, unitVars>>

\* lines 400-465
Respond ==
    /\ hPc = "respond"
    /\ LET results == NonAuthorResults(fList, AuthorTerms, fAuthorGap)
           retrieval_failures == RetrievalFailures(results, fAuthorGap)
       IN fResp' = [author_terms |-> AuthorTerms, author_gap |-> fAuthorGap,
                    retrieval_failures |-> retrieval_failures,
                    hallucination_risk |->
                        HallucinationRisk(sOut, retrieval_failures, fAuthorGap),
                    results |-> results, answer |-> sOut.answer,
                    provenance |-> sOut.provenance, confidence |-> sOut.confidence,
                    explain_trace |-> sOut.explain_trace]
    /\ hStatus' = 200
    /\ hPc' = "done"
    /\ UNCHANGED <<hReq, hPlan, tasks, raw, fList, fAuthorHits, fAuthorGap,
                   judgeVars, synthVars, unitVars>>

FusionNext ==
    \/ Normalize \/ Dedup \/ ExpandAuthor \/ Rerank \/ FilterByAuthor
    \/ Judge \/ Synthesize \/ Respond

SpecFusion == FusionInit /\ [][FusionNext]_vars

\* the list both dedups ran over: the normalised hits, then the hits of the
\* author-guided expansion
Fused ==
    NormalizeHits(raw.out, 0)
        \o (IF AuthorTerms = {} THEN <<>> ELSE NormalizeHits(fAuthorHits, 80000))

\* the whitespace-normalised lower-cased text: its words, lower-cased
TextKey(text) == LowerText(Split(text))

\* the id of the first item of fused with the key of text
FirstWithKey(fused, text) ==
    LET k == CHOOSE i \in 1..Len(fused) :
                 /\ TextKey(fused[i].text) = TextKey(text)
                 /\ \A j \in 1..(i - 1) : TextKey(fused[j].text) # TextKey(text)
    IN fused[k].id

NoDuplicates(items) ==
    LET fused == Fused
    IN /\ \A i, j \in 1..Len(items) :
            i # j => TextKey(items[i].text) # TextKey(items[j].text)
       /\ \A i \in 1..Len(items) : items[i].id = FirstWithKey(fused, items[i].text)

RespConfidence == ReadConfidence(fResp)

Surcharges ==
    (IF ProvFalsy(fResp.provenance) THEN 20000 ELSE 0)
    + (IF "low_top_score" \in fResp.retrieval_failures THEN 10000 ELSE 0)
    + (IF fResp.author_gap THEN 10000 ELSE 0)

C10_AuthorGapFallback ==
    (/\ hStatus = 200
     /\ AuthorTerms # {}
     /\ Len(Fused) > 0
     /\ \A i \in 1..Len(Fused) : ~author_matches(Fused[i], AuthorTerms))
    => /\ fResp.author_gap
       /\ "author_gap" \in fResp.retrieval_failures
       /\ fResp.results # <<>>
       /\ \A k \in 1..Len(fResp.results) :
              ~author_matches(fResp.results[k], AuthorTerms)

C11_AllAgentsTimedOut ==
    (hStatus = 200 /\ raw.out = <<>> /\ fAuthorHits = <<>>)
    => /\ fResp.results = <<>>
       /\ "no_results" \in fResp.retrieval_failures
       /\ fResp.answer = CouldNotSynthesize
       /\ RespConfidence.kind = "num"
       /\ RespConfidence.val <= 30000

----------------------------------------------------------------------------
(* Specification of concurrent GeminiREST.completion calls.  Each call is a
   coroutine of the one event loop; the calls interleave at their awaits
   (client.post and asyncio.sleep). *)

LlmInit ==
    /\ lEnabled \in BOOLEAN
    /\ lPc = [c \in Calls |-> "idle"]
    /\ lAttempt = [c \in Calls |-> 0]
    /\ lBackoff = [c \in Calls |-> 0]
    /\ PlanIdle
    /\ RouteIdle
    /\ MoreIdle
    /\ JudgeIdle
    /\ SynthIdle
    /\ hPc = "idle"
    /\ HandlerIdle

LlmFrame ==
    UNCHANGED <<lEnabled, planVars, routeVars, moreVars, judgeVars, synthVars, handlerVars>>

\* lines 33-50: completion is entered; without an API key it raises, otherwise
\* the first attempt is posted at once: nothing is acquired before the loop
LlmCompletion(c) ==
    /\ lPc[c] = "idle"
    /\ IF lEnabled
       THEN /\ lPc' = [lPc EXCEPT ![c] = "post"]
            /\ lAttempt' = [lAttempt EXCEPT ![c] = 1]
       ELSE /\ lPc' = [lPc EXCEPT ![c] = "raised"]
            /\ UNCHANGED lAttempt
    /\ UNCHANGED lBackoff
    /\ LlmFrame

\* lines 51-67: the response of the attempt
LlmResponse(c) ==
    /\ lPc[c] = "post"
    /\ \E status \in StatusCodes, jitter \in Jitters :
        IF status = 200
        THEN /\ lPc' = [lPc EXCEPT ![c] = "returned"]
             /\ UNCHANGED <<lAttempt, lBackoff>>
        ELSE IF lAttempt[c] >= llm_max_retries
        THEN /\ lPc' = [lPc EXCEPT ![c] = "raised"]
             /\ UNCHANGED <<lAttempt, lBackoff>>
        ELSE /\ lPc' = [lPc EXCEPT ![c] = "sleep"]
             /\ lBackoff' = [lBackoff EXCEPT ![c] = Backoff(lAttempt[c], jitter)]
             /\ UNCHANGED lAttempt
    /\ LlmFrame

\* lines 49-50: client.post raises (connection failure, or no response within
\* the client's 60 seconds); nothing in completion catches it
LlmTransportError(c) ==
    /\ lPc[c] = "post"
    /\ lPc' = [lPc EXCEPT ![c] = "raised"]
    /\ UNCHANGED <<lAttempt, lBackoff>>
    /\ LlmFrame

\* lines 67, 47-50: the sleep is over, the next attempt is posted
LlmWake(c) ==
    /\ lPc[c] = "sleep"
    /\ lPc' = [lPc EXCEPT ![c] = "post"]
    /\ lAttempt' = [lAttempt EXCEPT ![c] = lAttempt[c] + 1]
    /\ UNCHANGED lBackoff
    /\ LlmFrame

LlmNext ==
    \E c \in Calls :
        \/ LlmCompletion(c)
        \/ LlmResponse(c)
        \/ LlmTransportError(c)
        \/ LlmWake(c)

SpecLlm == LlmInit /\ [][LlmNext]_vars

\* C15: at any moment at most llm_max_concurrent completion calls are in
\* flight; a further call waits for admission until one of them finishes.
C15_AtMostMaxConcurrent == Cardinality(InFlight) <= llm_max_concurrent

\* C16: a completion call makes at most llm_max_retries attempts, sleeps
\* llm_retry_base_s * 2^(attempt-1) plus a jitter in [0, 0.25] after each
\* failed attempt before the last, and raises only after the last failed
\* attempt.
C16_RetryWithBackoff ==
    \A c \in Calls :
        /\ lAttempt[c] <= llm_max_retries
        /\ lPc[c] = "sleep" =>
                /\ lAttempt[c] < llm_max_retries
                /\ lBackoff[c] >= llm_retry_base_s * Pow2(lAttempt[c] - 1)
                /\ lBackoff[c] <= llm_retry_base_s * Pow2(lAttempt[c] - 1) + 25
        /\ (lEnabled /\ lPc[c] = "raised") => lAttempt[c] = llm_max_retries

----------------------------------------------------------------------------
(* Specification of plan_query over its inputs *)

PlanInit ==
    /\ pIn \in [user_query : PlanQueryTexts, llm : PlannerLlmOutcomes]
    /\ pOut = NoPlanOutput
    /\ pPc = "call"
    /\ LlmIdle
    /\ RouteIdle
    /\ MoreIdle
    /\ JudgeIdle
    /\ SynthIdle
    /\ hPc = "idle"
    /\ HandlerIdle

PlanCall ==
    /\ pPc = "call"
    /\ pOut' = plan_query(pIn.user_query, pIn.llm)
    /\ pPc' = "done"
    /\ UNCHANGED <<pIn, llmVars, routeVars, moreVars, judgeVars, synthVars, handlerVars>>

SpecPlan == PlanInit /\ [][PlanCall]_vars

\* the spellings of a token in which a trigger word occurs
TriggerSpellings == {"fear", "Fear", "FEAR", "fearless", "anxiety", "Anxiety", "worry"}

----------------------------------------------------------------------------
(* Specification of route_domain over its inputs *)

RouteInit ==
    /\ rIn \in [query : RouteQueryTexts, constraintsDomain : DomainValues,
                 prefsDomain : DomainValues, indices : IndexedDomains,
                 map : KeywordMaps]
    /\ rOut = NoDomain
    /\ rPc = "call"
    /\ LlmIdle
    /\ PlanIdle
    /\ MoreIdle
    /\ JudgeIdle
    /\ SynthIdle
    /\ hPc = "idle"
    /\ HandlerIdle

RouteCall ==
    /\ rPc = "call"
    /\ rOut' = route_domain(rIn.query, rIn.constraintsDomain, rIn.prefsDomain,
                            rIn.indices, rIn.map)
    /\ rPc' = "done"
    /\ UNCHANGED <<rIn, llmVars, planVars, moreVars, judgeVars, synthVars, handlerVars>>

SpecRoute == RouteInit /\ [][RouteCall]_vars

\* the name d occurs in the lower-cased query of the call
Mentioned(d) == InQuery(Lower(d), LowerText(rIn.query))

\* the score of entry i of the keyword map for the query of the call
ScoreOf(i) == DomainScore(rIn.map[i], LowerText(rIn.query))

\* C20: route_domain returns constraints.domain when it is non-empty, whatever
\* the preferences and the query; otherwise a non-empty preferences.domain;
\* otherwise the first indexed domain whose name occurs in the lower-cased
\* query; otherwise the domain of the keyword map with the strictly highest
\* score, the first seen on ties, when that score reaches
\* domain_min_keyword_hits, and null when it does not.
C20_RoutePriority ==
    rPc = "done" =>
        IF rIn.constraintsDomain # NoDomain THEN rOut = Lower(rIn.constraintsDomain)
        ELSE IF rIn.prefsDomain # NoDomain THEN rOut = Lower(rIn.prefsDomain)
        ELSE IF \E k \in 1..Len(rIn.indices) : Mentioned(rIn.indices[k])
        THEN \E k \in 1..Len(rIn.indices) :
                /\ Mentioned(rIn.indices[k])
                /\ \A j \in 1..(k - 1) : ~Mentioned(rIn.indices[j])
                /\ rOut = rIn.indices[k]
        ELSE IF \A i \in 1..Len(rIn.map) : ScoreOf(i) < domain_min_keyword_hits
        THEN rOut = NoDomain
        ELSE \E i \in 1..Len(rIn.map) :
                /\ rOut = rIn.map[i].domain
                /\ \A j \in 1..Len(rIn.map) : ScoreOf(j) <= ScoreOf(i)
                /\ \A j \in 1..(i - 1) : ScoreOf(j) < ScoreOf(i)

\* no explicit domain, no index: the alias of stoic and the name of legal score
\* two points each, and the first entry of the map wins
C20_Witness ==
    /\ rPc = "done"
    /\ rIn.constraintsDomain = NoDomain
    /\ rIn.prefsDomain = NoDomain
    /\ rIn.indices = <<>>
    /\ rIn.query = <<"Seneca", " ", "Legal">>
    /\ rIn.map = <<LegalKeywords, StoicKeywords>>
    /\ rOut = "legal"

----------------------------------------------------------------------------
(* Specification of apply_policy_rules over its inputs *)

PolicyInit ==
    /\ kIn \in PolicyInputs
    /\ kOut = <<>>
    /\ kPc = "call"
    /\ RateIdle
    /\ AuditIdle
    /\ CacheIdle
    /\ LlmIdle
    /\ PlanIdle
    /\ RouteIdle
    /\ JudgeIdle
    /\ SynthIdle
    /\ hPc = "idle"
    /\ HandlerIdle

PolicyCall ==
    /\ kPc = "call"
    /\ kOut' = apply_policy_rules(kIn.results, kIn)
    /\ kPc' = "done"
    /\ UNCHANGED <<kIn, rateVars, auditVars, cacheVars, llmVars, planVars, routeVars,
                   judgeVars, synthVars, handlerVars>>

SpecPolicy == PolicyInit /\ [][PolicyCall]_vars

\* the positions of the rules with a valid action that match the item
MatchingRules(r) ==
    {i \in 1..Len(kIn.rules) :
        /\ RuleAction(kIn.rules[i]) \in {"allow", "deny"}
        /\ match_rule(kIn.rules[i], r.text, r.source_type, r.domain)}

\* the first matching rule denies
FirstMatchDenies(r) ==
    \E i \in MatchingRules(r) :
        /\ \A j \in MatchingRules(r) : i <= j
        /\ RuleAction(kIn.rules[i]) = "deny"

\* C22: apply_policy_rules evaluates the rules in declared order and the first
\* rule that matches an item decides: deny drops it, allow keeps it, an item
\* that matches no rule is kept; an item rejected by the allow-list or by the
\* source_type / domain sets is never admitted again by an allow rule.  The
\* items kept stay in their order.
C22_FirstMatchWins ==
    kPc = "done" =>
        /\ kOut = SelectSeq(kIn.results,
                     LAMBDA r : ~PolicyRejects(r, kIn) /\ ~FirstMatchDenies(r))
        /\ \A i \in 1..Len(kIn.results) :
             LET r == kIn.results[i]
                 kept == \E j \in 1..Len(kOut) : kOut[j] = r
             IN /\ PolicyRejects(r, kIn) => ~kept
                /\ (kIn.rules = <<DenyX, AllowX>> /\ InText("x", r.text)) => ~kept
                /\ (kIn.rules = <<AllowX, DenyX>> /\ InText("x", r.text)
                        /\ ~PolicyRejects(r, kIn)) => kept
                /\ (MatchingRules(r) = {} /\ ~PolicyRejects(r, kIn)) => kept

\* deny before allow on x: the item with x is dropped, the one without is kept
C22_Witness ==
    /\ kPc = "done"
    /\ kIn.rules = <<DenyX, AllowX>>
    /\ Len(kIn.results) = 2
    /\ InText("x", kIn.results[1].text)
    /\ ~InText("x", kIn.results[2].text)
    /\ kOut = <<kIn.results[2]>>

----------------------------------------------------------------------------
(* Specification of the rate_limit middleware: requests of several clients
   arrive while the clock advances *)

RateInit ==
    /\ rlState = <<>>
    /\ rlNow \in {0, 30}
    /\ rlPassed = [kw \in ClientKeys \X Windows |-> 0]
    /\ rlLast = NoRequest
    /\ PolicyIdle
    /\ AuditIdle
    /\ CacheIdle
    /\ LlmIdle
    /\ PlanIdle
    /\ RouteIdle
    /\ JudgeIdle
    /\ SynthIdle
    /\ hPc = "idle"
    /\ HandlerIdle

RateFrame ==
    UNCHANGED <<policyVars, auditVars, cacheVars, llmVars, planVars, routeVars,
                judgeVars, synthVars, handlerVars>>

\* lines 22-23: a request to an exempt path goes to its handler
ExemptRequest ==
    /\ \E path \in ExemptPaths, key \in ClientKeys :
         rlLast' = [path |-> path, key |-> key, window |-> WindowOf(rlNow),
                    status |-> 200]
    /\ UNCHANGED <<rlState, rlNow, rlPassed>>
    /\ RateFrame

\* lines 24-39: any other request is counted, then rejected or passed on
CountedRequest ==
    /\ \E path \in Paths \ ExemptPaths, key \in ClientKeys :
         LET window == WindowOf(rlNow)
             state  == Counted(rlState, window, key)
             count  == state[window][key]
         IN /\ count <= rate_limit_per_minute + MaxOver
            /\ rlState' = state
            /\ IF OverLimit(count)
               THEN /\ rlLast' = [path |-> path, key |-> key, window |-> window,
                                  status |-> 429]
                    /\ UNCHANGED rlPassed
               ELSE /\ rlLast' = [path |-> path, key |-> key, window |-> window,
                                  status |-> 200]
                    /\ rlPassed' = [rlPassed EXCEPT ![<<key, window>>] = @ + 1]
    /\ UNCHANGED rlNow
    /\ RateFrame

\* time.time() advances
Tick ==
    /\ \E d \in {30, 60} :
         /\ rlNow + d <= MaxNow
         /\ rlNow' = rlNow + d
    /\ UNCHANGED <<rlState, rlPassed, rlLast>>
    /\ RateFrame

RateNext == ExemptRequest \/ CountedRequest \/ Tick

SpecRate == RateInit /\ [][RateNext]_vars

\* C29: for each client key and each 60-second window at most
\* rate_limit_per_minute requests to non-exempt paths are passed on and every
\* further one is answered with 429; requests to /health, /metrics and
\* /v1/metrics are neither counted nor rejected; after a counted request the
\* limiter holds no window older than the current one, so the count restarts
\* in every window.
C29_RateLimit ==
    /\ [](/\ \A kw \in ClientKeys \X Windows : rlPassed[kw] <= rate_limit_per_minute
          /\ rlLast.path \in ExemptPaths => rlLast.status = 200
          /\ rlLast.path \in Paths \ ExemptPaths =>
                \A ts \in DOMAIN rlState : ts >= rlLast.window)
    /\ [][LET key    == rlLast'.key
              window == rlLast'.window
              before == IF window \in DOMAIN rlState THEN rlState[window][key] ELSE 0
          IN /\ (rlLast' # rlLast /\ rlLast'.path \in ExemptPaths)
                  => (rlState' = rlState /\ rlPassed' = rlPassed)
             /\ (rlState' # rlState /\ before >= rate_limit_per_minute)
                  => (rlLast'.status = 429 /\ rlPassed' = rlPassed)
             /\ (rlState' # rlState /\ before < rate_limit_per_minute)
                  => /\ rlLast'.status = 200
                     /\ rlPassed'[<<key, window>>] = rlPassed[<<key, window>>] + 1]_vars

\* one client was rejected in the first window after two requests and was
\* passed on again in the next window, while the other still had its quota
C29_Witness ==
    /\ rlNow = 60
    /\ rlPassed[<<"10.0.0.1", 0>>] = rate_limit_per_minute
    /\ rlPassed[<<"10.0.0.1", 60>>] = 1
    /\ rlPassed[<<"10.0.0.2", 0>>] = 1
    /\ DOMAIN rlState = {60}
    /\ rlLast.status = 200
    /\ rlLast.key = "10.0.0.1"

----------------------------------------------------------------------------
(* Specification of the audit log: queries are logged while one client pages
   through /audit, following next_token until a page is empty *)

AuditInit ==
    /\ aRows = <<>>
    /\ aNow \in 0..MaxClock
    /\ aCursor = NoCursor
    /\ aSeen = <<>>
    /\ aStart = {}
    /\ aPc = "idle"
    /\ aUser = NoUser
    /\ PolicyIdle
    /\ RateIdle
    /\ CacheIdle
    /\ LlmIdle
    /\ PlanIdle
    /\ RouteIdle
    /\ JudgeIdle
    /\ SynthIdle
    /\ hPc = "idle"
    /\ HandlerIdle

AuditFrame ==
    UNCHANGED <<policyVars, rateVars, cacheVars, llmVars, planVars, routeVars,
                judgeVars, synthVars, handlerVars>>

\* store.py log_query_result: AUTOINCREMENT gives the next id, created_at is
\* the clock
LogQueryResult ==
    /\ Len(aRows) < MaxRows
    /\ \E user \in AuditUsers :
         aRows' = Append(aRows, [id |-> Len(aRows) + 1, user_id |-> user,
                                 created_at |-> aNow])
    /\ UNCHANGED <<aNow, aCursor, aSeen, aStart, aPc, aUser>>
    /\ AuditFrame

\* time.time() is the wall clock: it advances, and it can be set back
AuditClock ==
    /\ \E t \in 0..MaxClock :
         /\ t # aNow
         /\ aNow' = t
    /\ UNCHANGED <<aRows, aCursor, aSeen, aStart, aPc, aUser>>
    /\ AuditFrame

\* the client decides to page, with or without a user_id filter
StartPaging ==
    /\ aPc = "idle"
    /\ \E user \in {NoUser, "u1"} :
         /\ aUser' = user
         /\ aStart' = {i \in 1..Len(aRows) :
                         user # NoUser => aRows[i].user_id = user}
    /\ aPc' = "paging"
    /\ UNCHANGED <<aRows, aNow, aCursor, aSeen>>
    /\ AuditFrame

\* GET /audit with the next_token of the page before
FetchPage ==
    /\ aPc = "paging"
    /\ \E limit \in 0..MaxLimit :
         LET response == audit_endpoint(aRows, aUser, limit, aCursor)
             results  == response.results
         IN IF Len(results) = 0
            THEN /\ aPc' = "done"
                 /\ UNCHANGED <<aCursor, aSeen>>
            ELSE /\ aSeen' = aSeen \o [i \in 1..Len(results) |->
                                         decode_cursor(results[i].cursor).id]
                 /\ aCursor' = response.next_token
                 /\ UNCHANGED aPc
    /\ UNCHANGED <<aRows, aNow, aStart, aUser>>
    /\ AuditFrame

AuditNext == LogQueryResult \/ AuditClock \/ StartPaging \/ FetchPage

SpecAudit == AuditInit /\ [][AuditNext]_vars

----------------------------------------------------------------------------
(* Specification of the domain index cache: indices are created in the
   backend while route_domain is called again and again in one process *)

CacheInit ==
    /\ dBackend \in {<<>>, <<"stoic">>}
    /\ dCache = EmptyCache
    /\ dOut = NoDomain
    /\ dCalls = 0
    /\ PolicyIdle
    /\ RateIdle
    /\ AuditIdle
    /\ LlmIdle
    /\ PlanIdle
    /\ RouteIdle
    /\ JudgeIdle
    /\ SynthIdle
    /\ hPc = "idle"
    /\ HandlerIdle

CacheFrame ==
    UNCHANGED <<policyVars, rateVars, auditVars, llmVars, planVars, routeVars,
                judgeVars, synthVars, handlerVars>>

\* an index for one more domain is created in the search backend
CreateIndex ==
    /\ \E d \in BackendDomains :
         /\ \A i \in 1..Len(dBackend) : dBackend[i] # d
         /\ dBackend' = Append(dBackend, d)
    /\ UNCHANGED <<dCache, dOut, dCalls>>
    /\ CacheFrame

CacheQueryTexts == {Join(<<w>>) : w \in {"stoic", "Legal", "Seneca", "Fear"}}

\* route_domain with a domain in the preferences: the index list is not read
RouteByPreference ==
    /\ \E query \in CacheQueryTexts :
         dOut' = route_domain(query, NoDomain, "Legal", dCache.domains, <<>>)
    /\ UNCHANGED <<dBackend, dCache, dCalls>>
    /\ CacheFrame

\* route_domain without a domain in the request: the index list is read, from
\* the backend the first time
RouteByQuery ==
    /\ \E query \in CacheQueryTexts, outcome \in {"ok", "error"} :
         LET listed == list_domain_indices(dCache, dBackend, outcome)
         IN /\ dCache' = listed.cache
            /\ dOut' = route_domain(query, NoDomain, NoDomain, listed.domains, <<>>)
    /\ dCalls' = IF dCache.filled THEN Min(dCalls + 1, MaxRouteCalls) ELSE 0
    /\ UNCHANGED dBackend
    /\ CacheFrame

CacheNext == CreateIndex \/ RouteByPreference \/ RouteByQuery

\* requests without a domain keep arriving
SpecCache == CacheInit /\ [][CacheNext]_vars /\ WF_vars(RouteByQuery)

\* C25: a domain whose index exists in the backend eventually is in the list
\* route_domain matches names against, also when the index was created after
\* the first lookup or the first lookup failed.
C25_CacheInvalidated ==
    \A d \in BackendDomains :
        (\E i \in 1..Len(dBackend) : dBackend[i] = d)
            ~> (dCache.filled /\ \E i \in 1..Len(dCache.domains) : dCache.domains[i] = d)

====
